---- MODULE Spec2Model ----
(***************************************************************************)
(* Ensemble analysis engine of flex_analyzer (python-engine).              *)
(*                                                                         *)
(* The engine is a chain of pure table transformations                     *)
(*   sort_sequence -> getcoord -> getdistance2 -> getscore ->              *)
(*   compute_umf / generate_heatmap / per_residue_scores_fast /            *)
(*   detect_cis_pairs -> result record.                                    *)
(* Each transformation is modelled as an operator computed the way the     *)
(* Python code computes it, and applied by an action to inputs drawn from  *)
(* bounded sets.  One specification per component.                         *)
(*                                                                         *)
(* Numbers.  Floats are modelled exactly:                                  *)
(*   NaN, Inf, NegInf           the IEEE specials                          *)
(*   Fin(<<n, d>>)              the rational n/d in lowest terms, d > 0    *)
(*   <<"root", <<n, d>>>>       the irrational sqrt(n/d)                   *)
(* Lengths are in thousandths of an Angstrom (mA), so the substitute       *)
(* standard deviation 1e-4 A is the rational 1/10.                         *)
(***************************************************************************)
EXTENDS Integers, Sequences, FiniteSets, TLC

VARIABLES
    done,        \* names of the operations that have returned
    raised,      \* names of the operations that raised instead of returning
    atomcoord,   \* residue coordinate table, by column: residues, then
                 \* (label, x, y, z) per chain block (getcoord output)
    calc,        \* calculat of every two rows of every chain block
    distance,    \* pair table [cols, rows]: chain column names, and rows
                 \* [label, respair, cells] (getdistance2 output)
    score,       \* score table: rows [label, respair, mean, std, score]
    coords,      \* (K, N) array of C-alpha positions given to compute_dsa_stats
    core,        \* (mean_dist, score, valid) of _compute_dsa_core, per entry
    umf,         \* compute_umf(score)
    pair_stats,  \* (pair_score_mean, pair_score_std) of compute_pair_statistics
    heatmap,     \* generate_heatmap(score), an N x N array
    per_residue,       \* per_residue_scores_fast(score, num_residues)
    per_residue_slow,  \* compute_per_residue_scores(score, num_residues)
    result,      \* the result record built by run_dsa_pipeline
    stats,       \* the DsaGlobalStats record of compute_dsa_stats
    seqdata,     \* alignment table [columns, data]: reference column, then
                 \* one column of residue tokens per chain
    seq_ratio,   \* the trimming ratio, a rational <<n, d>>
    trimsequence,      \* sort_sequence(uniprot_id, seqdata, seq_ratio)
    cis_threshold,     \* the cis distance threshold (mA), a rational
    cis_dist,    \* first output of detect_cis_pairs: rows of the eligible pairs
    cis_info,    \* second output of detect_cis_pairs
    mmcifdict,   \* parsed mmCIF categories of one structure: [ref, has_dif, dif]
    struct_ref_seq,      \* CifData.struct_ref_seq: rows [strand_id, accession]
    struct_ref_seq_dif,  \* CifData.struct_ref_seq_dif: annotation rows
                         \* [strand_id, seq_num, db_seq_num, details]
    uniprotids,  \* accessions of the reference protein (UniprotData.get_id)
    mut_judge,   \* the label returned by CifData.mutationjudge
    pdblist,     \* the structures of the run, each with what its file gives:
                 \* [cif_ok, mut_judge, seq_ok, beg]
    pos,         \* position of the structure loop of run_dsa_pipeline in pdblist
    nor_pdblist, sub_pdblist, chi_pdblist, din_pdblist,
                 \* structures by label
    excluded_pdbs,     \* structures left out of the run
    error,       \* message of the RuntimeError raised by run_dsa_pipeline
    log,         \* log text returned by run_DSA
    entries,     \* what the UniProt REST service answers for every accession
    current_id,  \* uniprot_id: argument of the current call of the resolver
    visited,     \* the _visited set of _resolve_active_uniprot_id
    active_id,   \* the accession returned by _resolve_active_uniprot_id
    original_id,       \* UniprotData.original_id
    resolved_id,       \* UniprotData.resolved_id
    is_redirected,     \* UniprotData.is_redirected
    resolve_error,     \* the exception raised by a resolver
    atom_coord_dir,    \* the coordinate files of atom_coord/, by structure
    pdb_paths,   \* argument of _extract_coords_with_filtering: the files
    remaining,   \* its list of files still to be used
    removed,     \* its list of files excluded for their residue count
    chain_slice, \* getsequence: self.chain[align_beg:align_end] as sliced
    seq_num_insertion, \* seq_num of the annotations with db_seq_num "?"
    chain,       \* getsequence: the list chain, corrected in place
    insertion,   \* getsequence: the list insertion, consumed in place
    structure_coords_list, \* compute_uniprot_level_flex: the coordinates of
                 \* every structure group, by conformation and residue
    score_threshold,       \* its threshold of the standard deviation
    flex_ratio_threshold,  \* its threshold of the presence ratio
    uniprot_level,         \* the UniProtLevelResult it returns
    pdbdata,     \* generate_log_content: the resolution row of pdbdata
    log_content  \* the one-row log frame it returns

distVars == <<atomcoord, calc, distance>>
scoreVars == <<score, coords, core>>
aggVars == <<umf, pair_stats, heatmap, per_residue, per_residue_slow, result, stats>>
trimVars == <<seqdata, seq_ratio, trimsequence>>
cisVars == <<cis_threshold, cis_dist, cis_info>>
classifierVars == <<mmcifdict, struct_ref_seq, struct_ref_seq_dif, uniprotids, mut_judge>>
pipelineVars == <<pdblist, pos, nor_pdblist, sub_pdblist, chi_pdblist, din_pdblist,
                  excluded_pdbs, error, log>>
resolverVars == <<entries, current_id, visited, active_id, original_id, resolved_id,
                  is_redirected, resolve_error>>
filterVars == <<pdb_paths, remaining, removed>>
sequenceVars == <<chain_slice, seq_num_insertion, chain, insertion>>
flexVars == <<structure_coords_list, score_threshold, flex_ratio_threshold, uniprot_level>>
logVars == <<pdbdata, log_content>>
backVars == <<atom_coord_dir, filterVars, sequenceVars, flexVars, logVars>>
frontVars == <<classifierVars, pipelineVars, resolverVars, backVars>>

vars == <<done, raised, distVars, scoreVars, aggVars, trimVars, cisVars, frontVars>>

-----------------------------------------------------------------------------
(* Bounds *)

MaxK == 3          \* chain columns of a pair table
MaxN == 3          \* residue rows of a residue coordinate table
MaxBlocks == 2     \* chain blocks of a residue coordinate table
MaxPairRows == 2   \* pair rows of a hand-made pair table
MaxCoordN == 2     \* residues of a coordinate array
MaxAggN == 3       \* residues of a hand-made score table
MaxStatsK == 2     \* structures of a compute_dsa_stats coordinate array
MaxStatsN == 3     \* residues of a compute_dsa_stats coordinate array
MaxSeqL == 4       \* slots (rows) of an alignment table
MaxSeqK == 3       \* chain columns of an alignment table
MaxMissing == 3    \* missing chain entries of an alignment table
MaxCisRows == 2    \* pair rows of a pair table given to detect_cis_pairs
MaxCisK == 2       \* chain columns of a pair table given to detect_cis_pairs
MaxRefRows == 2    \* cross-reference rows of a structure file
MaxDifRows == 2    \* annotation rows of a structure file
MaxStructures == 3 \* structures of a run (pdblist)
MaxIds == 3         \* accessions known to the UniProt service
MaxCoordRows == 3   \* rows of the table given to getcoord
MaxCoordChains == 2 \* chain columns of the table given to getcoord
MaxPaths == 4       \* files given to _extract_coords_with_filtering
MaxFileResidues == 2 \* CA residues of chain A of a file
MaxChainLen == 4    \* entries of the chain slice of a strand
MaxInsertions == 3  \* insertion annotations of a strand
MaxJoined == 2      \* structures whose chain is joined to seqdata
MaxFlexN == 3       \* residues given to compute_uniprot_level_flex
MaxFlexGroups == 2  \* structure groups given to compute_uniprot_level_flex
MaxLogChains == 3   \* chain columns of the table given to generate_log_content
MaxRunStructures == 2 \* structures of a whole run of run_dsa_pipeline

-----------------------------------------------------------------------------
(* Exact arithmetic *)

Abs(x) == IF x < 0 THEN -x ELSE x

RECURSIVE GCD(_, _)
GCD(a, b) == IF b = 0 THEN a ELSE GCD(b, a % b)

\* the rational n/d, d # 0, in lowest terms with a positive denominator
Rat(n, d) ==
    LET g == GCD(Abs(n), Abs(d))
        s == IF d < 0 THEN -1 ELSE 1
    IN  <<(s * n) \div g, (s * d) \div g>>

RatAdd(a, b) == Rat(a[1] * b[2] + b[1] * a[2], a[2] * b[2])
RatSub(a, b) == Rat(a[1] * b[2] - b[1] * a[2], a[2] * b[2])
RatMul(a, b) == Rat(a[1] * b[1], a[2] * b[2])
RatDiv(a, b) == Rat(a[1] * b[2], a[2] * b[1])
RatLeq(a, b) == a[1] * b[2] <= b[1] * a[2]
RatInt(n) == <<n, 1>>
RatZero == <<0, 1>>

ISqrt(n) == CHOOSE k \in 0..n : k * k <= n /\ (k + 1) * (k + 1) > n
IsSquare(n) == ISqrt(n) * ISqrt(n) = n

NaN == <<"nan">>
Inf == <<"inf">>
NegInf == <<"-inf">>
Fin(r) == <<"fin", r>>
IsNaN(x) == x[1] = "nan"
\* np.isfinite: neither NaN nor an infinity
IsFinite(x) == x[1] \notin {"nan", "inf", "-inf"}
\* a float whose value is held exactly: a rational or the root of one
IsExact(x) == x[1] \in {"fin", "root"}

\* np.sqrt of a rational r >= 0
Sqrt(r) ==
    IF IsSquare(r[1]) /\ IsSquare(r[2])
    THEN Fin(<<ISqrt(r[1]), ISqrt(r[2])>>)
    ELSE <<"root", r>>

\* the square of a finite float, a rational
Square(x) == IF x[1] = "fin" THEN RatMul(x[2], x[2]) ELSE x[2]

\* float division x / y for x >= 0, y >= 0 (IEEE: x/0 = inf, 0/0 = nan); a
\* quotient of operands that are not held exactly is kept as a term
FDiv(x, y) ==
    IF IsNaN(x) \/ IsNaN(y) THEN NaN
    ELSE IF ~IsExact(x) \/ ~IsExact(y) THEN <<"div", x, y>>
    ELSE IF Square(y) = RatZero
         THEN (IF Square(x) = RatZero THEN NaN ELSE Inf)
         ELSE Sqrt(RatDiv(Square(x), Square(y)))

RECURSIVE SumSeq(_)
SumSeq(s) == IF s = <<>> THEN 0 ELSE s[1] + SumSeq(Tail(s))

RECURSIVE RatSum(_)
RatSum(s) == IF s = <<>> THEN RatZero ELSE RatAdd(s[1], RatSum(Tail(s)))

\* the sequence s with every entry evaluated (an array, not a view)
Array(s) == SubSeq(s, 1, Len(s))

\* s holds an entry equal to x
Has(s, x) == \E k \in 1..Len(s) : s[k] = x

\* np.mean of a sequence of floats: NaN when empty or when a NaN is present; a
\* mean of values that are not all rational is kept as a term
FMean(v) ==
    IF Len(v) = 0 \/ Has(v, NaN) \/ (Has(v, Inf) /\ Has(v, NegInf)) THEN NaN
    ELSE IF Has(v, Inf) THEN Inf
    ELSE IF Has(v, NegInf) THEN NegInf
    ELSE IF \A k \in 1..Len(v) : v[k][1] = "fin"
         THEN Fin(RatDiv(RatSum([k \in 1..Len(v) |-> v[k][2]]), RatInt(Len(v))))
         ELSE <<"mean", v>>

\* np.std(ddof) of a sequence of floats: sqrt(sum((d - mean)^2) / (n - ddof)),
\* NaN when n - ddof <= 0 or when a NaN or an infinity is present
FStd(v, ddof) ==
    IF Len(v) - ddof <= 0 \/ Has(v, NaN) \/ Has(v, Inf) \/ Has(v, NegInf) THEN NaN
    ELSE IF \A k \in 1..Len(v) : v[k][1] = "fin"
         THEN LET n == Len(v)
                  m == RatDiv(RatSum([k \in 1..n |-> v[k][2]]), RatInt(n))
                  sq == [k \in 1..n |-> RatMul(RatSub(v[k][2], m), RatSub(v[k][2], m))]
              IN  Sqrt(RatDiv(RatSum(sq), RatInt(n - ddof)))
         ELSE <<"std", v, ddof>>

\* the subsequence of s at the positions where mask is TRUE (boolean indexing)
RECURSIVE BoolIndex(_, _)
BoolIndex(s, mask) ==
    IF s = <<>> THEN <<>>
    ELSE (IF mask[1] THEN <<s[1]>> ELSE <<>>) \o BoolIndex(Tail(s), Tail(mask))

\* Series.dropna() of a float column
DropNa(s) == BoolIndex(s, [k \in 1..Len(s) |-> ~IsNaN(s[k])])

-----------------------------------------------------------------------------
(* score.py *)

\* Series.mean(skipna=True) of a row of cells
PdMean(cells) == FMean(DropNa(cells))

\* Series.std with the sample denominator n - 1 whatever ddof says
PdStdSample(cells, ddof) == FStd(DropNa(cells), 1)

\* Series.std(ddof, skipna=True)
PdStd(cells, ddof) == FStd(DropNa(cells), ddof)

\* 1e-4 Angstrom in mA
StdEpsilon == Fin(<<1, 10>>)

\* stds.replace(0, 0.0001)
ReplaceZeroStd(s) == IF s = Fin(RatZero) THEN StdEpsilon ELSE s

getscoreRow(row, ddof) ==
    LET means == PdMean(row.cells)
        stds == ReplaceZeroStd(PdStd(row.cells, ddof))
    IN  [label |-> row.label, respair |-> row.respair,
         mean |-> means, std |-> stds, score |-> FDiv(means, stds)]

getscore(dist, ddof) ==
    Array([r \in 1..Len(dist.rows) |-> getscoreRow(dist.rows[r], ddof)])

-----------------------------------------------------------------------------
(* distance.py *)

\* missing value of a text column, and its fillna("NA") replacement
NaS == "nan"
FillNA(tok) == IF tok = NaS THEN "NA" ELSE tok

\* list(itertools.combinations(range(N), 2)): 0-based pairs, as generated
RECURSIVE CombFrom(_, _, _)
CombFrom(i, j, N) ==
    IF i >= N - 1 THEN <<>>
    ELSE IF j >= N THEN CombFrom(i + 1, i + 2, N)
    ELSE <<<<i, j>>>> \o CombFrom(i, j + 1, N)

\* combinations of range(N - 1): the last residue is left out
Combinations2Short(N) == CombFrom(0, 1, N - 1)

Combinations2(N) == CombFrom(0, 1, N)

\* np.triu_indices(N, k=1): the 0-based (i, j) with j - i >= 1, row-major
TriuIndices(N) ==
    BoolIndex([p \in 1..(N * N) |-> <<(p - 1) \div N, (p - 1) % N>>],
              [p \in 1..(N * N) |-> ((p - 1) % N) - ((p - 1) \div N) >= 1])

\* f"{i + 1}, {j + 1}": the 1-based pair label of a 0-based pair
PairLabel(p) == <<p[1] + 1, p[2] + 1>>

\* np.rint of a rational towards the nearest integer, ties away from even
RintHalfUp(r) ==
    LET q == r[1] \div r[2]
        rem == r[1] % r[2]
    IN  IF 2 * rem < r[2] THEN q ELSE q + 1

\* np.rint of a rational: nearest integer, ties to even
Rint(r) ==
    LET q == r[1] \div r[2]
        rem == r[1] % r[2]
    IN  IF 2 * rem < r[2] THEN q
        ELSE IF 2 * rem > r[2] THEN q + 1
        ELSE IF q % 2 = 0 THEN q ELSE q + 1

\* np.rint((a - b) * 1000) of one coordinate; coordinates are held in mA, so
\* the factor 1000 is the unit; NaN propagates
RintDiff(a, b) == IF IsNaN(a) \/ IsNaN(b) THEN NaN ELSE Fin(RatInt(Rint(RatSub(a[2], b[2]))))

\* np.sqrt(np.sum(xyz ** 2)) / 1000 of the rounded differences, in mA
NormOfRounded(xyz) ==
    IF \E c \in 1..3 : IsNaN(xyz[c]) THEN NaN
    ELSE Sqrt(RatInt(xyz[1][2][1] * xyz[1][2][1] + xyz[2][2][1] * xyz[2][2][1]
                     + xyz[3][2][1] * xyz[3][2][1]))

\* calculat(atom1, atom2)
calculat(atom1, atom2) ==
    NormOfRounded([c \in 1..3 |-> RintDiff(atom1[c], atom2[c])])

\* calculat_vectorized(atoms): dists[iu] of the N x N matrix of rounded norms
calculat_vectorized(atoms) ==
    LET iu == TriuIndices(Len(atoms))
    IN  [r \in 1..Len(iu) |->
            NormOfRounded([c \in 1..3 |->
                RintDiff(atoms[iu[r][1] + 1][c], atoms[iu[r][2] + 1][c])])]

\* atomcoord.iloc[:, c] for a 0-based column position c
ILocCol(ac, c) == ac[c + 1]

\* number of 4-column blocks after the reference column
NumStructures(ac) == (Len(ac) - 1) \div 4

\* column name of block idx (0-based): the label in the first row
ColName(ac, idx) ==
    LET label_value == ILocCol(ac, 1 + idx * 4)[1]
    IN  IF label_value = NaS THEN "Structure_" \o ToString(idx + 1) ELSE label_value

\* the coordinates of the first block, whatever idx
BlockAtomsFirst(ac, idx) ==
    [i \in 1..Len(ac[1]) |-> <<ILocCol(ac, 2)[i], ILocCol(ac, 3)[i], ILocCol(ac, 4)[i]>>]

\* atomcoord.iloc[:, x_col_idx : z_col_idx + 1].to_numpy() of block idx
BlockAtoms(ac, idx) ==
    [i \in 1..Len(ac[1]) |->
        <<ILocCol(ac, 2 + idx * 4)[i], ILocCol(ac, 3 + idx * 4)[i], ILocCol(ac, 4 + idx * 4)[i]>>]

\* the distinct column names in order of first assignment
RECURSIVE DistinctNames(_)
DistinctNames(names) ==
    IF names = <<>> THEN <<>>
    ELSE LET front == DistinctNames(SubSeq(names, 1, Len(names) - 1))
             last == names[Len(names)]
         IN  IF \E k \in 1..Len(front) : front[k] = last THEN front
             ELSE Append(front, last)

\* getdistance2(atomcoord), for a table with at least one row and one block;
\* distance[col] = ... assigns by name, so a repeated name keeps the last block
getdistance2(ac) ==
    LET N == Len(ac[1])
        index_pairs == Combinations2(N)
        residues == [i \in 1..N |-> FillNA(ac[1][i])]
        names == [b \in 1..NumStructures(ac) |-> ColName(ac, b - 1)]
        cols == DistinctNames(names)
        lastBlock(c) == CHOOSE b \in 1..Len(names) :
                            /\ names[b] = cols[c]
                            /\ \A b2 \in 1..Len(names) : names[b2] = cols[c] => b2 <= b
        values == [c \in 1..Len(cols) |-> calculat_vectorized(BlockAtoms(ac, lastBlock(c) - 1))]
    IN  [cols |-> cols,
         rows |-> [r \in 1..Len(index_pairs) |->
                     [label |-> PairLabel(index_pairs[r]),
                      respair |-> <<residues[index_pairs[r][1] + 1],
                                    residues[index_pairs[r][2] + 1]>>,
                      cells |-> [c \in 1..Len(cols) |-> values[c][r]]]]]

-----------------------------------------------------------------------------
(* score.py: statistics of a score table *)

\* what an operation yields when it raises: for operations that return
\* floats or arrays, and for operations that return tables
RuntimeError == <<"RuntimeError">>
ValueError == <<"ValueError">>
RuntimeErrorTable == [error |-> "RuntimeError"]

\* score["score"]
ScoreColumn(sc) == [r \in 1..Len(sc) |-> sc[r].score]

\* Series.replace([np.inf, -np.inf], np.nan)
ReplaceInf(s) == [k \in 1..Len(s) |-> IF s[k] \in {Inf, NegInf} THEN NaN ELSE s[k]]

\* the non-missing scores, infinities kept
GetValidScoresKeepInf(sc) == DropNa(ScoreColumn(sc))

\* _get_valid_scores, before its check for an empty result
GetValidScores(sc) == DropNa(ReplaceInf(ScoreColumn(sc)))

\* compute_pair_statistics: (s.mean(), s.std(ddof=1)), or the RuntimeError of
\* _get_valid_scores
compute_pair_statistics(sc) ==
    LET s == GetValidScores(sc)
    IN  IF Len(s) = 0 THEN RuntimeError ELSE <<FMean(s), FStd(s, 1)>>

\* compute_umf: compute_pair_statistics(score)[0]
compute_umf(sc) ==
    LET ps == compute_pair_statistics(sc)
    IN  IF ps = RuntimeError THEN RuntimeError ELSE ps[1]

-----------------------------------------------------------------------------
(* heatmap.py *)

Max(S) == CHOOSE x \in S : \A y \in S : y <= x
Min(S) == CHOOSE x \in S : \A y \in S : x <= y

\* JSON null
None == <<"None">>

\* the rows of the table labelled (i, j)
RowsLabelled(sc, i, j) == {r \in 1..Len(sc) : sc[r].label = <<i, j>>}

\* heatmap entry (i, j), 1-based, when the loop also fills heatmap[j0, i0]
HeatmapEntrySymmetric(sc, i, j) ==
    IF RowsLabelled(sc, i, j) # {} THEN sc[Max(RowsLabelled(sc, i, j))].score
    ELSE IF RowsLabelled(sc, j, i) # {} THEN sc[Max(RowsLabelled(sc, j, i))].score
    ELSE NaN

\* heatmap entry (i, j), 1-based, after the loop heatmap[i0, j0] = s over the
\* rows: the score of the last row labelled (i, j), NaN when there is none
HeatmapEntry(sc, i, j) ==
    IF RowsLabelled(sc, i, j) # {} THEN sc[Max(RowsLabelled(sc, i, j))].score
    ELSE NaN

\* generate_heatmap(score); max() of an empty array raises ValueError
generate_heatmap(sc) ==
    IF Len(sc) = 0 THEN ValueError
    ELSE LET n_residues == Max({sc[r].label[c] : r \in 1..Len(sc), c \in 1..2})
         IN  [i \in 1..n_residues |-> [j \in 1..n_residues |-> HeatmapEntry(sc, i, j)]]

\* heatmap_to_list: NaN becomes None
heatmap_to_list(h) ==
    [i \in 1..Len(h) |-> [j \in 1..Len(h[i]) |->
        IF IsNaN(h[i][j]) THEN None ELSE h[i][j]]]

-----------------------------------------------------------------------------
(* per_residue.py *)

\* mask of the rows whose first index is the residue
EndpointMaskFirst(sc, residue_idx) ==
    [r \in 1..Len(sc) |-> sc[r].label[1] = residue_idx]

\* (pairs[:, 0] == residue_idx) | (pairs[:, 1] == residue_idx)
EndpointMask(sc, residue_idx) ==
    [r \in 1..Len(sc) |-> sc[r].label[1] = residue_idx \/ sc[r].label[2] = residue_idx]

\* np.isfinite(v) as a mask
FiniteMask(v) == [k \in 1..Len(v) |-> IsFinite(v[k])]

\* per_residue_scores_fast; entry idx + 1 of the model is per_residue[idx]
per_residue_scores_fast(sc, num_residues) ==
    [residue_idx \in 1..num_residues |->
        LET related_scores == BoolIndex(ScoreColumn(sc), EndpointMask(sc, residue_idx))
            valid_scores == BoolIndex(related_scores, FiniteMask(related_scores))
        IN  IF Len(valid_scores) > 0 THEN FMean(valid_scores) ELSE NaN]

\* the inner loop of compute_per_residue_scores from row r on: the scores
\* appended to related_scores
RECURSIVE RelatedScores(_, _, _)
RelatedScores(sc, r, residue_idx) ==
    IF r > Len(sc) THEN <<>>
    ELSE (IF /\ (sc[r].label[1] = residue_idx \/ sc[r].label[2] = residue_idx)
             /\ ~IsNaN(sc[r].score)
             /\ IsFinite(sc[r].score)
          THEN <<sc[r].score>> ELSE <<>>) \o RelatedScores(sc, r + 1, residue_idx)

\* compute_per_residue_scores
compute_per_residue_scores(sc, num_residues) ==
    [residue_idx \in 1..num_residues |->
        LET related_scores == RelatedScores(sc, 1, residue_idx)
        IN  IF Len(related_scores) > 0 THEN FMean(related_scores) ELSE NaN]

-----------------------------------------------------------------------------
(* dsa_pipeline.py: the result record *)

\* _to_optional_float: NaN and the infinities become None
ToOptionalFloat(x) == IF IsNaN(x) \/ ~IsFinite(x) THEN None ELSE x

\* the PairScore list
PairScores(sc) ==
    [r \in 1..Len(sc) |->
        [i |-> sc[r].label[1], j |-> sc[r].label[2],
         residue_pair |-> sc[r].respair,
         distance_mean |-> ToOptionalFloat(sc[r].mean),
         distance_std |-> ToOptionalFloat(sc[r].std),
         score |-> ToOptionalFloat(sc[r].score)]]

\* the PerResidueScore list: zip of the reference column and the per-residue
\* array, a NaN score written as 0.0
PerResidueScores(ac, per_residue_array) ==
    [k \in 1..Min({Len(ac[1]), Len(per_residue_array)}) |->
        [index |-> k - 1,
         residue_number |-> k,
         residue_name |-> FillNA(ac[1][k]),
         score |-> IF IsNaN(per_residue_array[k]) THEN Fin(RatZero)
                   ELSE per_residue_array[k]]]

-----------------------------------------------------------------------------
(* dsa.py *)

\* np.linalg.norm of the difference of two positions <<x, y, z>>
NpNorm(p, q) ==
    Sqrt(RatInt((p[1] - q[1]) * (p[1] - q[1]) + (p[2] - q[2]) * (p[2] - q[2])
                + (p[3] - q[3]) * (p[3] - q[3])))

\* _compute_pairwise_distances: dists[k, i, j], with dists[:, i, j] the K
\* distances of one pair
ComputePairwiseDistances(c, k, i, j) == NpNorm(c[k][i], c[k][j])

\* ndarray.mean(axis=0) over the K cells of one pair: NaN is not skipped
NpMean(cells) == FMean(cells)

\* ndarray.std(axis=0, ddof=0)
NpStd(cells) == FStd(cells, 0)

\* _compute_dsa_core, entry (i, j) of (mean_dist, score, valid); the diagonal of
\* score is NaN and of valid False
DsaCoreEntry(c, i, j) ==
    LET col == Array([k \in 1..Len(c) |-> ComputePairwiseDistances(c, k, i, j)])
        mean_ij == NpMean(col)
        std_ij == NpStd(col)
        std_for_score == IF std_ij = Fin(RatZero) THEN StdEpsilon ELSE std_ij
        score_ij == FDiv(mean_ij, std_for_score)
    IN  [mean_dist |-> mean_ij,
         score |-> IF i = j THEN NaN ELSE score_ij,
         valid |-> i # j /\ IsFinite(score_ij)]

\* _compute_dsa_core: the three N x N matrices, held entry by entry
ComputeDsaCore(c) ==
    Array([i \in 1..Len(c[1]) |-> Array([j \in 1..Len(c[1]) |-> DsaCoreEntry(c, i, j)])])

\* (a + b) / 2.0 of two floats
FAvg(a, b) ==
    IF IsNaN(a) \/ IsNaN(b) THEN NaN
    ELSE IF ~IsFinite(a) \/ ~IsFinite(b)
         THEN (IF a = b THEN a ELSE IF IsFinite(a) THEN b ELSE IF IsFinite(b) THEN a ELSE NaN)
    ELSE IF a = b THEN a
    ELSE IF a[1] = "fin" /\ b[1] = "fin" THEN Fin(RatDiv(RatAdd(a[2], b[2]), RatInt(2)))
    ELSE <<"avg", a, b>>

\* _symmetrize_score on the (score, valid) entries of c: score_sym is the mean
\* of score and its transpose, NaN where either is NaN; valid_sym is
\* valid & valid.T; the diagonal is NaN / False
symmetrize_score(c) ==
    Array([i \in 1..Len(c) |-> Array([j \in 1..Len(c) |->
        [score |-> IF i = j \/ IsNaN(c[i][j].score) \/ IsNaN(c[j][i].score) THEN NaN
                   ELSE FAvg(c[i][j].score, c[j][i].score),
         valid |-> i # j /\ c[i][j].valid /\ c[j][i].valid]])])

\* np.nanmean
NanMean(v) == FMean(DropNa(v))

\* np.nanstd(ddof)
NanStd(v, ddof) == FStd(DropNa(v), ddof)

\* score[iu] and valid[iu] for iu = np.triu_indices(N, k=1)
ScoresFlat(sym) ==
    LET iu == TriuIndices(Len(sym))
    IN  Array([r \in 1..Len(iu) |-> sym[iu[r][1] + 1][iu[r][2] + 1].score])
ValidFlat(sym) ==
    LET iu == TriuIndices(Len(sym))
    IN  Array([r \in 1..Len(iu) |-> sym[iu[r][1] + 1][iu[r][2] + 1].valid])

\* s holds TRUE (np.any)
NpAny(mask) == \E k \in 1..Len(mask) : mask[k]

\* _compute_umf_and_per_residue: (umf, per_residue)
compute_umf_and_per_residue(sym) ==
    LET N == Len(sym)
        row_scores(i) == [j \in 1..N |-> sym[i][j].score]
        row_valid(i) == [j \in 1..N |-> sym[i][j].valid]
    IN  <<IF NpAny(ValidFlat(sym)) THEN NanMean(BoolIndex(ScoresFlat(sym), ValidFlat(sym)))
          ELSE NaN,
          [i \in 1..N |-> IF NpAny(row_valid(i))
                          THEN NanMean(BoolIndex(row_scores(i), row_valid(i)))
                          ELSE NaN]>>

\* default of main_plot_max_points in compute_dsa_stats
MainPlotMaxPoints == 5000

\* the outcomes of _sample_main_plot_points: the valid finite (mean, score) of
\* the upper triangle in order, or when there are more than max_points, any
\* max_points of them drawn without replacement
sample_main_plot_points(c, sym, max_points) ==
    LET iu == TriuIndices(Len(sym))
        md_flat == [r \in 1..Len(iu) |-> c[iu[r][1] + 1][iu[r][2] + 1].mean_dist]
        sc_flat == ScoresFlat(sym)
        mask == [r \in 1..Len(iu) |->
                    ValidFlat(sym)[r] /\ IsFinite(md_flat[r]) /\ IsFinite(sc_flat[r])]
        md_valid == BoolIndex(md_flat, mask)
        sc_valid == BoolIndex(sc_flat, mask)
        size == Len(md_valid)
    IN  IF size <= max_points
        THEN { [r \in 1..size |-> <<md_valid[r], sc_valid[r]>>] }
        ELSE { [r \in 1..max_points |-> <<md_valid[idx[r]], sc_valid[idx[r]]>>] :
                 idx \in { f \in [1..max_points -> 1..size] :
                             \A a, b \in 1..max_points : a # b => f[a] # f[b] } }

\* x <= t for a float x >= 0 and a rational t >= 0; False for NaN
FLeq(x, t) == IsExact(x) /\ RatLeq(Square(x), RatMul(t, t))

\* _detect_cis_from_ca: positions i (0-based) whose mean C-alpha distance to
\* i + 1 is finite and <= threshold
detect_cis_from_ca(c, threshold) ==
    LET N == Len(c[1])
        mean_dists == [i \in 1..(N - 1) |->
                          NpMean([k \in 1..Len(c) |-> NpNorm(c[k][i + 1], c[k][i])])]
        hit == [i \in 1..(N - 1) |-> IsFinite(mean_dists[i]) /\ FLeq(mean_dists[i], threshold)]
        positions == BoolIndex([i \in 1..(N - 1) |-> i - 1], hit)
    IN  IF N < 2
        THEN [threshold |-> threshold, num_positions |-> 0,
              positions |-> <<>>, mean_distances |-> <<>>]
        ELSE [threshold |-> threshold, num_positions |-> Len(positions),
              positions |-> positions,
              mean_distances |-> [p \in 1..Len(positions) |-> mean_dists[positions[p] + 1]]]

\* heatmap entry (i, j) of compute_dsa_stats: heatmap[iu] = score_sym[iu]
StatsHeatmapEntry(sym, i, j) == IF j - i >= 1 THEN sym[i][j].score ELSE NaN

\* compute_dsa_stats(coords, cis_threshold, main_plot_max_points), given the
\* points drawn by _sample_main_plot_points
compute_dsa_stats(c, threshold, main_points) ==
    LET K == Len(c)
        N == Len(c[1])
        raw == ComputeDsaCore(c)
        sym == symmetrize_score(raw)
        up == compute_umf_and_per_residue(sym)
        scores_flat == ScoresFlat(sym)
        valid_flat == ValidFlat(sym)
    IN  [num_structures |-> K,
         num_residues |-> N,
         umf |-> up[1],
         pair_score_mean |-> IF NpAny(valid_flat)
                             THEN NanMean(BoolIndex(scores_flat, valid_flat)) ELSE NaN,
         pair_score_std |-> IF NpAny(valid_flat)
                            THEN NanStd(BoolIndex(scores_flat, valid_flat), 1) ELSE NaN,
         main_plot_points |-> main_points,
         score_heatmap |-> [i \in 1..N |-> [j \in 1..N |-> StatsHeatmapEntry(sym, i, j)]],
         per_residue_scores |-> [i \in 1..N |-> IF IsFinite(up[2][i]) THEN up[2][i] ELSE NaN],
         cis_summary |-> detect_cis_from_ca(c, threshold)]

-----------------------------------------------------------------------------
(* Values of the variables a component does not use *)

NoTable == [cols |-> <<>>, rows |-> <<>>]

NoResult ==
    [uniprot_id |-> "", num_residues |-> 0, umf |-> NaN, pair_score_mean |-> NaN, pair_score_std |-> NaN,
     pair_scores |-> <<>>, per_residue_scores |-> <<>>,
     heatmap |-> [size |-> 0, values |-> <<>>]]

NoStats ==
    [num_structures |-> 0, num_residues |-> 0, umf |-> NaN,
     pair_score_mean |-> NaN, pair_score_std |-> NaN, main_plot_points |-> <<>>,
     score_heatmap |-> <<>>, per_residue_scores |-> <<>>,
     cis_summary |-> [threshold |-> RatZero, num_positions |-> 0,
                      positions |-> <<>>, mean_distances |-> <<>>]]

NoSeqTable == [columns |-> <<>>, data |-> <<>>]

NoCisInfo ==
    [cis_dist_mean |-> NaN, cis_dist_std |-> NaN, cis_score_mean |-> NaN,
     cis_num |-> 0, mix |-> 0, cis_pairs |-> <<>>, threshold |-> RatZero]

DistIdle == atomcoord = <<>> /\ calc = <<>> /\ distance = NoTable

ScoreIdle == score = <<>> /\ coords = <<>> /\ core = <<>>

AggIdle ==
    /\ umf = NaN
    /\ pair_stats = <<NaN, NaN>>
    /\ heatmap = <<>>
    /\ per_residue = <<>>
    /\ per_residue_slow = <<>>
    /\ result = NoResult
    /\ stats = NoStats

TrimIdle == seqdata = NoSeqTable /\ seq_ratio = RatZero /\ trimsequence = NoSeqTable

CisIdle == cis_threshold = RatZero /\ cis_dist = <<>> /\ cis_info = NoCisInfo

NoCif == [ref |-> <<>>, has_dif |-> FALSE, dif |-> <<>>]

ClassifierIdle ==
    /\ mmcifdict = NoCif
    /\ struct_ref_seq = <<>>
    /\ struct_ref_seq_dif = <<>>
    /\ uniprotids = <<>>
    /\ mut_judge = ""

PipelineIdle ==
    /\ pdblist = <<>>
    /\ pos = 0
    /\ nor_pdblist = <<>> /\ sub_pdblist = <<>> /\ chi_pdblist = <<>> /\ din_pdblist = <<>>
    /\ excluded_pdbs = <<>>
    /\ error = ""
    /\ log = ""

NoEntries == <<>>

ResolverIdle ==
    /\ entries = NoEntries
    /\ current_id = ""
    /\ visited = {}
    /\ active_id = ""
    /\ original_id = ""
    /\ resolved_id = ""
    /\ is_redirected = FALSE
    /\ resolve_error = ""

FilterIdle == pdb_paths = <<>> /\ remaining = <<>> /\ removed = <<>>

SequenceIdle ==
    chain_slice = <<>> /\ seq_num_insertion = <<>> /\ chain = <<>> /\ insertion = <<>>

FlexIdle ==
    /\ structure_coords_list = <<>>
    /\ score_threshold = RatZero /\ flex_ratio_threshold = RatZero
    /\ uniprot_level = <<>>

LogIdle == pdbdata = <<>> /\ log_content = <<>>

BackIdle ==
    /\ atom_coord_dir = <<>>
    /\ FilterIdle
    /\ SequenceIdle
    /\ FlexIdle
    /\ LogIdle

FrontIdle == ClassifierIdle /\ PipelineIdle /\ ResolverIdle /\ BackIdle

-----------------------------------------------------------------------------
(* Scorer: getscore on a pair table, _compute_dsa_core on a coordinate array *)

\* distances a pair table can hold (mA)
CellValues == {NaN, Fin(RatInt(3)), Fin(RatInt(4))}

\* name of the k-th chain column
ChainName(k) == "S" \o ToString(k) \o " A"

\* the first R rows of a pair table with K chain columns
PairTables(maxRows, maxCols) ==
    UNION {
        { [cols |-> [k \in 1..K |-> ChainName(k)],
           rows |-> [r \in 1..R |->
                       [label |-> PairLabel(Combinations2(R + 1)[r]),
                        respair |-> <<"ALA", "GLY">>,
                        cells |-> t[r]]]] :
            t \in [1..R -> [1..K -> CellValues]] } :
        R \in 1..maxRows, K \in 1..maxCols }

\* C-alpha positions on the x axis (mA), as in tests/test_dsa_basic.py
AxisPoints == { <<x, 0, 0>> : x \in {0, 3, 4} }

CoordArrays(maxChains, residues) ==
    UNION { [1..K -> [1..residues -> AxisPoints]] : K \in 1..maxChains }

InitScore ==
    /\ done = {}
    /\ raised = {}
    /\ score = <<>>
    /\ core = <<>>
    /\ atomcoord = <<>>
    /\ calc = <<>>
    /\ \/ distance \in PairTables(MaxPairRows, MaxK) /\ coords = <<>>
       \/ distance = NoTable /\ coords \in CoordArrays(MaxK, MaxCoordN)
    /\ AggIdle /\ TrimIdle /\ CisIdle /\ FrontIdle

\* score = getscore(distance, ddof=0)
GetScore ==
    /\ "getscore" \notin done
    /\ Len(distance.cols) > 0
    /\ score' = getscore(distance, 0)
    /\ done' = done \cup {"getscore"}
    /\ UNCHANGED <<frontVars, raised, distVars, coords, core, aggVars, trimVars, cisVars>>

\* mean_dist, score_raw, valid_raw = _compute_dsa_core(coords)
DsaCore ==
    /\ "dsa_core" \notin done
    /\ Len(coords) >= 1
    /\ Len(coords[1]) >= 1
    /\ core' = ComputeDsaCore(coords)
    /\ done' = done \cup {"dsa_core"}
    /\ UNCHANGED <<frontVars, raised, distVars, score, coords, aggVars, trimVars, cisVars>>

NextScore == GetScore \/ DsaCore

SpecScore == InitScore /\ [][NextScore]_vars

-----------------------------------------------------------------------------
(* Pair distance engine: getdistance2 and calculat on a coordinate table *)

\* reference residue of row i
ResidueName(i) == IF i % 3 = 1 THEN "MET" ELSE IF i % 3 = 2 THEN "ALA" ELSE "GLY"

\* C-alpha positions (mA) a row of chain block b can have; the last one is a
\* row without coordinates.  From the origin the second position of an odd
\* block is at rounded differences (2, 1, 0), norm sqrt(5), that of an even
\* block at (2, 0, 0), norm 2.
PointValues(b) ==
    { <<Fin(<<0, 1>>), Fin(<<0, 1>>), Fin(<<0, 1>>)>>,
      IF b % 2 = 1 THEN <<Fin(<<3, 2>>), Fin(<<5, 4>>), Fin(<<1, 2>>)>>
                   ELSE <<Fin(<<3, 2>>), Fin(<<0, 1>>), Fin(<<1, 2>>)>>,
      <<NaN, NaN, NaN>> }

\* the table getcoord builds from B chains with positions pts[b][i]
AtomCoordOf(N, B, pts) ==
    [c \in 1..(1 + 4 * B) |->
        IF c = 1 THEN [i \in 1..N |-> ResidueName(i)]
        ELSE LET b == ((c - 2) \div 4) + 1
                 f == (c - 2) % 4
             IN  IF f = 0 THEN [i \in 1..N |-> ChainName(b)]
                 ELSE [i \in 1..N |-> pts[b][i][f]]]

AtomCoordTables(maxResidues, maxBlocks) ==
    UNION { { AtomCoordOf(N, B, pts) :
                pts \in { q \in [1..B -> [1..N -> UNION { PointValues(b) : b \in 1..B }]] :
                             \A b \in 1..B : \A i \in 1..N : q[b][i] \in PointValues(b) } } :
            N \in 1..maxResidues, B \in 1..maxBlocks }

InitDist ==
    /\ done = {}
    /\ raised = {}
    /\ atomcoord \in AtomCoordTables(MaxN, MaxBlocks)
    /\ calc = <<>>
    /\ distance = NoTable
    /\ ScoreIdle /\ AggIdle /\ TrimIdle /\ CisIdle /\ FrontIdle

\* distance = getdistance2(atomcoord)
GetDistance2 ==
    /\ "getdistance2" \notin done
    /\ distance' = getdistance2(atomcoord)
    /\ done' = done \cup {"getdistance2"}
    /\ UNCHANGED <<frontVars, raised, atomcoord, calc, scoreVars, aggVars, trimVars, cisVars>>

\* calculat(atoms[i], atoms[j]) for every two rows i, j of every chain block
Calculat ==
    /\ "calculat" \notin done
    /\ calc' = [b \in 1..NumStructures(atomcoord) |->
                  [i \in 1..Len(atomcoord[1]) |-> [j \in 1..Len(atomcoord[1]) |->
                      calculat(BlockAtoms(atomcoord, b - 1)[i],
                               BlockAtoms(atomcoord, b - 1)[j])]]]
    /\ done' = done \cup {"calculat"}
    /\ UNCHANGED <<frontVars, raised, atomcoord, distance, scoreVars, aggVars, trimVars, cisVars>>

NextDist == GetDistance2 \/ Calculat

SpecDist == InitDist /\ [][NextDist]_vars

-----------------------------------------------------------------------------
(* Aggregator: steps 7 and 9 to 11 of run_dsa_pipeline on a score table, the *)
(* reference reduction compute_per_residue_scores, and compute_dsa_stats on  *)
(* a coordinate array                                                        *)

\* what row r of a score table can hold: no distance at all, a finite score
\* (r itself, so that rows are told apart), or an infinite one
ScoreRowValues(r) ==
    { [mean |-> NaN, std |-> NaN, score |-> NaN],
      [mean |-> Fin(RatInt(r)), std |-> Fin(RatInt(1)), score |-> Fin(RatInt(r))],
      [mean |-> Inf, std |-> Fin(RatInt(1)), score |-> Inf],
      [mean |-> NegInf, std |-> Fin(RatInt(1)), score |-> NegInf] }

\* the score tables of N residues
ScoreTables(N) ==
    LET index_pairs == Combinations2(N)
        R == Len(index_pairs)
    IN  { [r \in 1..R |->
              [label |-> PairLabel(index_pairs[r]),
               respair |-> <<ResidueName(index_pairs[r][1] + 1),
                             ResidueName(index_pairs[r][2] + 1)>>,
               mean |-> t[r].mean, std |-> t[r].std, score |-> t[r].score]] :
          t \in { q \in [1..R -> UNION { ScoreRowValues(r) : r \in 1..R }] :
                    \A r \in 1..R : q[r] \in ScoreRowValues(r) } }

\* C-alpha positions on the x axis (mA) for compute_dsa_stats
StatsAxisPoints == { <<x, 0, 0>> : x \in {0, 4} }

StatsCoordArrays(maxChains, maxResidues) ==
    UNION { [1..K -> [1..N -> StatsAxisPoints]] : K \in 1..maxChains, N \in 1..maxResidues }

\* cis thresholds (mA)
CisThresholds == { RatInt(3), <<7, 2>> }

\* either getscore has returned a score table for the N rows of atomcoord (of
\* which this stage reads the reference column only), or a coordinate array is
\* about to be given to compute_dsa_stats
InitAgg ==
    /\ raised = {}
    /\ calc = <<>>
    /\ distance = NoTable
    /\ core = <<>>
    /\ AggIdle /\ TrimIdle /\ CisIdle /\ FrontIdle
    /\ \/ /\ done = {"getscore"}
          /\ \E N \in 1..MaxAggN :
                /\ score \in ScoreTables(N)
                /\ atomcoord = <<[i \in 1..N |-> ResidueName(i)]>>
          /\ coords = <<>>
       \/ /\ done = {}
          /\ score = <<>>
          /\ atomcoord = <<>>
          /\ coords \in StatsCoordArrays(MaxStatsK, MaxStatsN)

\* umf = compute_umf(score)
ComputeUmf ==
    /\ "getscore" \in done
    /\ "compute_umf" \notin done
    /\ raised = {}
    /\ IF compute_umf(score) = RuntimeError
       THEN /\ raised' = raised \cup {"compute_umf"}
            /\ UNCHANGED <<done, umf>>
       ELSE /\ umf' = compute_umf(score)
            /\ done' = done \cup {"compute_umf"}
            /\ UNCHANGED raised
    /\ UNCHANGED <<frontVars, distVars, scoreVars, pair_stats, heatmap, per_residue,
                   per_residue_slow, result, stats, trimVars, cisVars>>

\* pair_score_mean, pair_score_std = compute_pair_statistics(score)
ComputePairStatistics ==
    /\ "compute_umf" \in done
    /\ "compute_pair_statistics" \notin done
    /\ raised = {}
    /\ IF compute_pair_statistics(score) = RuntimeError
       THEN /\ raised' = raised \cup {"compute_pair_statistics"}
            /\ UNCHANGED <<done, pair_stats>>
       ELSE /\ pair_stats' = compute_pair_statistics(score)
            /\ done' = done \cup {"compute_pair_statistics"}
            /\ UNCHANGED raised
    /\ UNCHANGED <<frontVars, distVars, scoreVars, umf, heatmap, per_residue,
                   per_residue_slow, result, stats, trimVars, cisVars>>

\* heatmap_array = generate_heatmap(score)
GenerateHeatmap ==
    /\ "compute_pair_statistics" \in done
    /\ "generate_heatmap" \notin done
    /\ raised = {}
    /\ IF generate_heatmap(score) = ValueError
       THEN /\ raised' = raised \cup {"generate_heatmap"}
            /\ UNCHANGED <<done, heatmap>>
       ELSE /\ heatmap' = generate_heatmap(score)
            /\ done' = done \cup {"generate_heatmap"}
            /\ UNCHANGED raised
    /\ UNCHANGED <<frontVars, distVars, scoreVars, umf, pair_stats, per_residue,
                   per_residue_slow, result, stats, trimVars, cisVars>>

\* per_residue_array = per_residue_scores_fast(score, num_residues)
PerResidueScoresFast ==
    /\ "generate_heatmap" \in done
    /\ "per_residue_scores_fast" \notin done
    /\ raised = {}
    /\ per_residue' = per_residue_scores_fast(score, Len(atomcoord[1]))
    /\ done' = done \cup {"per_residue_scores_fast"}
    /\ UNCHANGED <<frontVars, raised, distVars, scoreVars, umf, pair_stats, heatmap,
                   per_residue_slow, result, stats, trimVars, cisVars>>

\* compute_per_residue_scores(score, num_residues)
ComputePerResidueScores ==
    /\ "getscore" \in done
    /\ "compute_per_residue_scores" \notin done
    /\ per_residue_slow' = compute_per_residue_scores(score, Len(atomcoord[1]))
    /\ done' = done \cup {"compute_per_residue_scores"}
    /\ UNCHANGED <<frontVars, raised, distVars, scoreVars, umf, pair_stats, heatmap,
                   per_residue, result, stats, trimVars, cisVars>>

\* step 11: the result record
BuildResult ==
    /\ "per_residue_scores_fast" \in done
    /\ "result" \notin done
    /\ raised = {}
    /\ result' = [uniprot_id |-> current_id,
                  num_residues |-> Len(atomcoord[1]),
                  umf |-> umf,
                  pair_score_mean |-> pair_stats[1],
                  pair_score_std |-> pair_stats[2],
                  pair_scores |-> PairScores(score),
                  per_residue_scores |-> PerResidueScores(atomcoord, per_residue),
                  heatmap |-> [size |-> Len(atomcoord[1]),
                               values |-> heatmap_to_list(heatmap)]]
    /\ done' = done \cup {"result"}
    /\ UNCHANGED <<frontVars, raised, distVars, scoreVars, umf, pair_stats, heatmap,
                   per_residue, per_residue_slow, stats, trimVars, cisVars>>

\* stats = compute_dsa_stats(coords, cis_threshold)
DsaStats ==
    /\ "compute_dsa_stats" \notin done
    /\ Len(coords) >= 1
    /\ \E threshold \in CisThresholds :
          LET raw == ComputeDsaCore(coords)
          IN  \E main_points \in sample_main_plot_points(raw, symmetrize_score(raw),
                                                          MainPlotMaxPoints) :
                  stats' = compute_dsa_stats(coords, threshold, main_points)
    /\ done' = done \cup {"compute_dsa_stats"}
    /\ UNCHANGED <<frontVars, raised, distVars, scoreVars, umf, pair_stats, heatmap,
                   per_residue, per_residue_slow, result, trimVars, cisVars>>

NextAgg ==
    \/ ComputeUmf
    \/ ComputePairStatistics
    \/ GenerateHeatmap
    \/ PerResidueScoresFast
    \/ ComputePerResidueScores
    \/ BuildResult
    \/ DsaStats

SpecAgg == InitAgg /\ [][NextAgg]_vars

-----------------------------------------------------------------------------
(* sequence.py: sort_sequence *)

\* the t-th smallest element of a set of integers
NthSmallest(S, t) == CHOOSE x \in S : Cardinality({y \in S : y < x}) = t - 1

\* number of rows of an alignment table
NumRows(df) == IF Len(df.data) = 0 THEN 0 ELSE Len(df.data[1])

\* df.iloc[:, 1:].count(axis=1) at row i: the non-missing chain entries
CountPerRow(df, i) == Cardinality({c \in 2..Len(df.data) : df.data[c][i] # NaS})

\* int(num_structures * seq_ratio) for a ratio n/d >= 0
TrimThreshold(num_structures, ratio) == (num_structures * ratio[1]) \div ratio[2]

\* a row is kept only above the threshold
KeepRowStrict(count, threshold) == count > threshold

\* count_per_row >= threshold
KeepRow(count, threshold) == count >= threshold

\* sort_sequence(uniprot_id, seqdata, seq_ratio) for a table with a reference
\* column
sort_sequence(uniprot_id, sd, ratio) ==
    LET df == [columns |-> [c \in 1..Len(sd.columns) |->
                               IF c = 1 THEN uniprot_id ELSE sd.columns[c]],
               data |-> sd.data]
        num_structures == Len(df.columns) - 1
        threshold == TrimThreshold(num_structures, ratio)
        keep == [i \in 1..NumRows(df) |-> KeepRow(CountPerRow(df, i), threshold)]
        df_filtered == [columns |-> df.columns,
                        data |-> [c \in 1..Len(df.data) |-> BoolIndex(df.data[c], keep)]]
    IN  IF num_structures = 0 THEN df
        ELSE IF NumRows(df_filtered) = 0 THEN RuntimeErrorTable
        ELSE df_filtered

-----------------------------------------------------------------------------
(* Trimmer: step 4 of run_dsa_pipeline on an alignment table *)

UniprotId == "P69905"

\* the alignment table of L slots and K chains whose missing entries are M
SeqTableOf(L, K, M) ==
    [columns |-> [c \in 1..(K + 1) |-> IF c = 1 THEN UniprotId ELSE ChainName(c - 1)],
     data |-> [c \in 1..(K + 1) |-> [i \in 1..L |->
                  IF <<i, c - 1>> \in M THEN NaS ELSE ResidueName(i)]]]

\* alignment tables with at most MaxMissing missing chain entries
SeqTables(maxLen, maxChains, maxMissing) ==
    UNION { { SeqTableOf(L, K, M) :
                M \in { X \in SUBSET ((1..L) \X (1..K)) : Cardinality(X) <= maxMissing } } :
            L \in 1..maxLen, K \in 0..maxChains }

SeqRatios == { <<0, 1>>, <<1, 2>>, <<9, 10>>, <<1, 1>> }

\* str(unidata.get_id()), the name run_DSA gives the reference column
StrIds == "['P69905', 'P01922']"

\* at least 3 chains are needed for a standard deviation
CHAIN_THRESHOLD == 3

\* RuntimeError messages of run_dsa_pipeline and the log of run_DSA
TooFewStructures == "Less than 2 valid structures. Cannot proceed with analysis."
TooFewChains == "Less than 2 chains after trimming. Cannot proceed."
LessThan3Chains == "\n\nLess than 3 chains"

\* the table is handed to step 4 of run_dsa_pipeline or to run_DSA
InitTrim ==
    /\ done \in {{"total_used"}, {"run_DSA"}}
    /\ raised = {}
    /\ seqdata \in SeqTables(MaxSeqL, MaxSeqK, MaxMissing)
    /\ seq_ratio \in SeqRatios
    /\ trimsequence = NoSeqTable
    /\ DistIdle /\ ScoreIdle /\ AggIdle /\ CisIdle /\ FrontIdle

\* trimsequence = sort_sequence(uniprotids[0], seqdata, seq_ratio)
SortSequence ==
    /\ "total_used" \in done
    /\ "sort_sequence" \notin done
    /\ raised = {}
    /\ IF sort_sequence(UniprotId, seqdata, seq_ratio) = RuntimeErrorTable
       THEN /\ raised' = raised \cup {"sort_sequence"}
            /\ UNCHANGED <<done, trimsequence>>
       ELSE /\ trimsequence' = sort_sequence(UniprotId, seqdata, seq_ratio)
            /\ done' = done \cup {"sort_sequence"}
            /\ UNCHANGED raised
    /\ UNCHANGED <<frontVars, distVars, scoreVars, aggVars, seqdata, seq_ratio, cisVars>>

\* num_chains = len(trimsequence.columns) - 1; fewer than 2 raises
CheckNumChains ==
    /\ "sort_sequence" \in done
    /\ "num_chains" \notin done
    /\ raised = {}
    /\ "total_used" \in done
    /\ IF Len(trimsequence.columns) - 1 < 2
       THEN /\ raised' = raised \cup {"run_dsa_pipeline"}
            /\ error' = TooFewChains
            /\ UNCHANGED done
       ELSE /\ done' = done \cup {"num_chains"}
            /\ UNCHANGED <<raised, error>>
    /\ UNCHANGED <<resolverVars, backVars, classifierVars, pdblist, pos, nor_pdblist, sub_pdblist, chi_pdblist,
                   din_pdblist, excluded_pdbs, log,
                   distVars, scoreVars, aggVars, trimVars, cisVars>>

\* run_DSA: trimsequence = sort_sequence(str_ids, seqdata, seq_ratio)
RunDsaSortSequence ==
    /\ "run_DSA" \in done
    /\ "sort_sequence" \notin done
    /\ raised = {}
    /\ IF sort_sequence(StrIds, seqdata, seq_ratio) = RuntimeErrorTable
       THEN /\ raised' = raised \cup {"sort_sequence"}
            /\ UNCHANGED <<done, trimsequence>>
       ELSE /\ trimsequence' = sort_sequence(StrIds, seqdata, seq_ratio)
            /\ done' = done \cup {"sort_sequence"}
            /\ UNCHANGED raised
    /\ UNCHANGED <<frontVars, distVars, scoreVars, aggVars, seqdata, seq_ratio, cisVars>>

\* run_DSA: with fewer than CHAIN_THRESHOLD chain columns it returns an empty
\* frame and the log "Less than 3 chains", otherwise it goes on to getcoord
RunDsaCheckChains ==
    /\ "run_DSA" \in done
    /\ "sort_sequence" \in done
    /\ "trimseqcol" \notin done
    /\ log = ""
    /\ IF Len(trimsequence.columns) - 1 > CHAIN_THRESHOLD - 1
       THEN done' = done \cup {"trimseqcol"} /\ UNCHANGED log
       ELSE log' = LessThan3Chains /\ UNCHANGED done
    /\ UNCHANGED <<resolverVars, backVars, raised, classifierVars, pdblist, pos, nor_pdblist, sub_pdblist,
                   chi_pdblist, din_pdblist, excluded_pdbs, error,
                   distVars, scoreVars, aggVars, trimVars, cisVars>>

NextTrim == SortSequence \/ CheckNumChains \/ RunDsaSortSequence \/ RunDsaCheckChains

SpecTrim == InitTrim /\ [][NextTrim]_vars

-----------------------------------------------------------------------------
(* cis.py: detect_cis_pairs *)

\* x > t for a float x >= 0 and a rational t >= 0; False for NaN
FGt(x, t) == IsExact(x) /\ ~RatLeq(Square(x), RatMul(t, t))

\* distance.query("`col` <= @cis_threshold").index.to_list() for chain column c
CisIndexOfColumn(dist, c, threshold) ==
    BoolIndex([r \in 1..Len(dist.rows) |-> r - 1],
              [r \in 1..Len(dist.rows) |-> FLeq(dist.rows[r].cells[c], threshold)])

\* cis_index after the loop over the chain columns c..K
RECURSIVE CisIndexFrom(_, _, _)
CisIndexFrom(dist, c, threshold) ==
    IF c > Len(dist.cols) THEN <<>>
    ELSE CisIndexOfColumn(dist, c, threshold) \o CisIndexFrom(dist, c + 1, threshold)

\* the index list as collected, neither de-duplicated nor sorted
AsCollected(idx) == idx

\* sorted(set(idx))
SortedSet(idx) ==
    LET S == {idx[k] : k \in 1..Len(idx)}
    IN  [t \in 1..Cardinality(S) |-> NthSmallest(S, t)]

\* (row <= cis_threshold).sum() and (row > cis_threshold).sum()
CisCnt(cells, threshold) == Cardinality({c \in 1..Len(cells) : FLeq(cells[c], threshold)})

\* a count of the cells that are not <= threshold, missing cells included
TransCntNotCis(cells, threshold) ==
    Cardinality({c \in 1..Len(cells) : ~FLeq(cells[c], threshold)})

TransCnt(cells, threshold) == Cardinality({c \in 1..Len(cells) : FGt(cells[c], threshold)})

\* detect_cis_pairs(distance, cis_threshold): <<cis_dist, cis_info>>
detect_cis_pairs(dist, threshold) ==
    LET collected == CisIndexFrom(dist, 1, threshold)
        cis_index == Array(SortedSet(collected))
        sel == [cols |-> dist.cols,
                rows |-> Array([t \in 1..Len(cis_index) |-> dist.rows[cis_index[t] + 1]])]
        cis_score == getscore(sel, 0)
        rows == Array([t \in 1..Len(cis_index) |->
                    [label |-> sel.rows[t].label,
                     respair |-> sel.rows[t].respair,
                     cells |-> sel.rows[t].cells,
                     mean |-> cis_score[t].mean,
                     std |-> cis_score[t].std,
                     score |-> cis_score[t].score,
                     cis_cnt |-> CisCnt(sel.rows[t].cells, threshold),
                     trans_cnt |-> TransCnt(sel.rows[t].cells, threshold)]])
        means == Array([t \in 1..Len(rows) |-> rows[t].mean])
        scores == Array([t \in 1..Len(rows) |-> rows[t].score])
    IN  IF Len(collected) = 0
        THEN <<<<>>,
               [cis_dist_mean |-> Fin(RatZero), cis_dist_std |-> Fin(RatZero),
                cis_score_mean |-> Fin(RatZero), cis_num |-> 0, mix |-> 0,
                cis_pairs |-> <<>>, threshold |-> threshold]>>
        ELSE <<rows,
               [cis_dist_mean |-> FMean(DropNa(means)),
                cis_dist_std |-> IF Len(means) = 1 THEN Fin(RatZero)
                                 ELSE FStd(DropNa(means), 1),
                cis_score_mean |-> FMean(DropNa(scores)),
                cis_num |-> Cardinality({t \in 1..Len(rows) : rows[t].trans_cnt = 0}),
                mix |-> Cardinality({t \in 1..Len(rows) :
                                        rows[t].cis_cnt >= 1 /\ rows[t].trans_cnt >= 1}),
                cis_pairs |-> [t \in 1..Len(rows) |-> rows[t].label],
                threshold |-> threshold]>>

-----------------------------------------------------------------------------
(* Cis detector: step 8 of run_dsa_pipeline on a pair table *)

CisTables(maxRows, maxCols) ==
    UNION {
        { [cols |-> [k \in 1..K |-> ChainName(k)],
           rows |-> [r \in 1..R |->
                       [label |-> PairLabel(Combinations2(R + 1)[r]),
                        respair |-> <<"ALA", "GLY">>,
                        cells |-> t[r]]]] :
            t \in [1..R -> [1..K -> CellValues]] } :
        R \in 1..maxRows, K \in 1..maxCols }

\* cis_threshold: float = 3.8
DefaultCisThreshold == <<19, 5>>

\* one pair measured in five chains: 3.2, 3.4, 3.6, 3.2 and 5.0
MixedPairTable ==
    [cols |-> [k \in 1..5 |-> ChainName(k)],
     rows |-> << [label |-> PairLabel(<<0, 1>>),
                  respair |-> <<"ALA", "GLY">>,
                  cells |-> <<Fin(<<16, 5>>), Fin(<<17, 5>>), Fin(<<18, 5>>),
                              Fin(<<16, 5>>), Fin(RatInt(5))>>] >>]

InitCis ==
    /\ done = {"getdistance2"}
    /\ raised = {}
    /\ atomcoord = <<>>
    /\ calc = <<>>
    /\ \/ distance \in CisTables(MaxCisRows, MaxCisK) /\ cis_threshold \in CisThresholds
       \/ distance = MixedPairTable /\ cis_threshold = DefaultCisThreshold
    /\ cis_dist = <<>>
    /\ cis_info = NoCisInfo
    /\ ScoreIdle /\ AggIdle /\ TrimIdle /\ FrontIdle

\* cis_dist, cis_info = detect_cis_pairs(distance, cis_threshold)
DetectCisPairs ==
    /\ "getdistance2" \in done
    /\ "detect_cis_pairs" \notin done
    /\ LET out == detect_cis_pairs(distance, cis_threshold)
       IN  cis_dist' = out[1] /\ cis_info' = out[2]
    /\ done' = done \cup {"detect_cis_pairs"}
    /\ UNCHANGED <<frontVars, raised, distVars, scoreVars, aggVars, trimVars, cis_threshold>>

NextCis == DetectCisPairs

SpecCis == InitCis /\ [][NextCis]_vars

-----------------------------------------------------------------------------
(* cif_data.py: CifData.__init__ (cross-references and annotations) and
   CifData.mutationjudge *)

\* str.upper() and str.lower() on the tokens that occur
Upper(tok) ==
    CASE tok = "p01922" -> "P01922"
      [] OTHER -> tok
Lower(tok) ==
    CASE tok = "Conflict" -> "conflict"
      [] OTHER -> tok

\* position of a chain in _pdbx_poly_seq_scheme.pdb_strand_id
StrandIndex(strand) == IF strand = "A" THEN 0 ELSE 1

\* rows of a frame with a given strand_id, in frame order
OfStrand(rows, strand) == SelectSeq(rows, LAMBDA r : r.strand_id = strand)

\* sort_values("sort_index") of the cross-reference rows: chain A before B
SortBySortIndex(rows) ==
    SelectSeq(rows, LAMBDA r : StrandIndex(r.strand_id) = 0)
        \o SelectSeq(rows, LAMBDA r : StrandIndex(r.strand_id) = 1)

\* self.struct_ref_seq
CifStructRefSeq(mm) ==
    SortBySortIndex([k \in 1..Len(mm.ref) |->
        [strand_id |-> mm.ref[k].strand_id, accession |-> Upper(mm.ref[k].accession)]])

\* details removed from struct_ref_seq_dif by the constructor
ExcludedDetails == {"expression tag", "linker", "conflict", "microgeterogeneity"}

\* self.struct_ref_seq_dif; an mmCIF file without the category gives the
\* empty frame
CifStructRefSeqDif(mm) ==
    IF ~mm.has_dif THEN <<>>
    ELSE SelectSeq([k \in 1..Len(mm.dif) |->
                      [strand_id |-> mm.dif[k].strand_id,
                       seq_num |-> mm.dif[k].seq_num,
                       db_seq_num |-> mm.dif[k].db_seq_num,
                       details |-> Lower(mm.dif[k].details)]],
                   LAMBDA r : r.details \notin ExcludedDetails)

\* len(l) != len(set(l))
HasDuplicates(l) == Len(l) # Cardinality({l[k] : k \in 1..Len(l)})

\* column of a frame as a list
Column(rows, name) == [k \in 1..Len(rows) |-> rows[k][name]]

\* the delins loop of mutationjudge over the matched chains m_id
DelinsFound(m_id, mdif_pd) ==
    \E k \in 1..Len(m_id) :
        LET strand_mdif_pd == OfStrand(mdif_pd, m_id[k])
        IN  \/ HasDuplicates(Column(strand_mdif_pd, "seq_num"))
            \/ HasDuplicates(Column(strand_mdif_pd, "db_seq_num"))

\* CifData.mutationjudge(uniprotids, pdbid)
mutationjudge(ref_seq, ref_seq_dif, ids) ==
    LET m_pd == ref_seq
        unim_pd == SelectSeq(m_pd, LAMBDA r : Has(ids, r.accession))
        m_id == Column(unim_pd, "strand_id")
        mdif_pd == SelectSeq(ref_seq_dif, LAMBDA r : Has(m_id, r.strand_id))
        mdif_pd_details == {mdif_pd[k].details : k \in 1..Len(mdif_pd)}
        s_list == Column(m_pd, "strand_id")
    IN  IF Len(unim_pd) = 0 THEN "UniProt ID mismatch"
        ELSE IF HasDuplicates(unim_pd) THEN "chimera"
        ELSE IF Len(mdif_pd) = 0 THEN "normal"
        ELSE IF "engineered mutation" \in mdif_pd_details THEN "substitution"
        ELSE IF "microheterogeneity" \in mdif_pd_details THEN "normal"
        ELSE IF HasDuplicates(s_list) THEN "chimera"
        ELSE IF DelinsFound(m_id, mdif_pd) THEN "delins"
        ELSE "substitution"

-----------------------------------------------------------------------------
(* Classifier: step 3 of run_dsa_pipeline on one structure *)

\* accessions of the reference protein, primary first
ReferenceIds == <<"P69905", "P01922">>

\* _struct_ref_seq rows of a file
Strands == <<"A", "B">>
Accessions == <<"P69905", "p01922", "P68871">>
RefRowAt(i) ==
    [strand_id |-> Strands[(i \div 3) + 1], accession |-> Accessions[(i % 3) + 1]]

\* _struct_ref_seq_dif rows of a file: residue numbers as written, "?" for
\* a residue absent from the structure
SeqNums == << <<"?", "10">>, <<"10", "10">>, <<"10", "11">> >>
Details == <<"engineered mutation", "deletion", "expression tag", "linker",
             "Conflict", "microheterogeneity">>
DifRowAt(i) ==
    [strand_id |-> Strands[(i \div 18) + 1],
     seq_num |-> SeqNums[((i \div 6) % 3) + 1][1],
     db_seq_num |-> SeqNums[((i \div 6) % 3) + 1][2],
     details |-> Details[(i % 6) + 1]]

\* the non-decreasing index lists of length n below top
Ascending(n, top) ==
    {s \in [1..n -> 0..(top - 1)] : \A k \in 1..(n - 1) : s[k] <= s[k + 1]}

CifDicts(maxRef, maxDif) ==
    { [ref |-> [k \in 1..Len(r) |-> RefRowAt(r[k])],
       has_dif |-> Len(d) > 0,
       dif |-> [k \in 1..Len(d) |-> DifRowAt(d[k])]] :
        r \in UNION {[1..n -> 0..5] : n \in 1..maxRef},
        d \in UNION {Ascending(n, 36) : n \in 0..maxDif} }

InitJudge ==
    /\ done = {}
    /\ raised = {}
    /\ mmcifdict \in CifDicts(MaxRefRows, MaxDifRows)
    /\ uniprotids = ReferenceIds
    /\ struct_ref_seq = <<>>
    /\ struct_ref_seq_dif = <<>>
    /\ mut_judge = ""
    /\ PipelineIdle /\ ResolverIdle /\ BackIdle
    /\ DistIdle /\ ScoreIdle /\ AggIdle /\ TrimIdle /\ CisIdle

\* cifdata = CifData(pdbid, pdir)
CifDataInit ==
    /\ "CifData" \notin done
    /\ struct_ref_seq' = CifStructRefSeq(mmcifdict)
    /\ struct_ref_seq_dif' = CifStructRefSeqDif(mmcifdict)
    /\ done' = done \cup {"CifData"}
    /\ UNCHANGED <<resolverVars, backVars, raised, distVars, scoreVars, aggVars, trimVars, cisVars,
                   pipelineVars, mmcifdict, uniprotids, mut_judge>>

\* mut_judge = cifdata.mutationjudge(uniprotids, pdbid)
MutationJudge ==
    /\ "CifData" \in done
    /\ "mutationjudge" \notin done
    /\ mut_judge' = mutationjudge(struct_ref_seq, struct_ref_seq_dif, uniprotids)
    /\ done' = done \cup {"mutationjudge"}
    /\ UNCHANGED <<resolverVars, backVars, raised, distVars, scoreVars, aggVars, trimVars, cisVars,
                   pipelineVars, mmcifdict, struct_ref_seq, struct_ref_seq_dif, uniprotids>>

NextJudge == CifDataInit \/ MutationJudge

SpecJudge == InitJudge /\ [][NextJudge]_vars

-----------------------------------------------------------------------------
(* Acceptance: step 3 of run_dsa_pipeline, the loop over the structures, the
   count of the used structures, and step 4 *)

\* length of the reference sequence
ReferenceLength == 2

\* what the file of a structure gives: CifData raises; or mutationjudge
\* returns a label and then position / getsequence raise or give the
\* residues beg..ReferenceLength of the chain
Labels == <<"normal", "substitution", "chimera", "delins">>
StructureAt(i) ==
    IF i = 0 THEN [cif_ok |-> FALSE, mut_judge |-> "", seq_ok |-> FALSE, beg |-> 0]
    ELSE IF i = 1
    THEN [cif_ok |-> TRUE, mut_judge |-> "UniProt ID mismatch", seq_ok |-> FALSE, beg |-> 0]
    ELSE [cif_ok |-> TRUE,
          mut_judge |-> Labels[((i - 2) \div 3) + 1],
          seq_ok |-> (i - 2) % 3 # 0,
          beg |-> (i - 2) % 3]

PdbLists(maxLen) ==
    UNION { {[k \in 1..n |-> StructureAt(f[k])] : f \in [1..n -> 0..13]} :
            n \in 0..maxLen }

\* name of the k-th structure of pdblist
PdbId(k) == "S" \o ToString(k)

\* the column of a chain: df_beg, the residues of the chain, df_end
SeqColumn(beg) ==
    [i \in 1..ReferenceLength |-> IF i < beg THEN NaS ELSE ResidueName(i)]

\* pd.concat([seqdata, seq], axis=1) with seq named "<pdbid> A"
ConcatColumn(sd, name, column) ==
    [columns |-> Append(sd.columns, name), data |-> Append(sd.data, column)]

\* seqdata = pd.DataFrame(sequence, columns=[uniprotids[0]])
ReferenceTable ==
    [columns |-> <<UniprotId>>,
     data |-> <<[i \in 1..ReferenceLength |-> ResidueName(i)]>>]

AcceptRatios == { <<9, 10>>, <<1, 1>> }

InitAccept ==
    /\ done = {}
    /\ raised = {}
    /\ pdblist \in PdbLists(MaxStructures)
    /\ pos = 1
    /\ nor_pdblist = <<>> /\ sub_pdblist = <<>> /\ chi_pdblist = <<>> /\ din_pdblist = <<>>
    /\ excluded_pdbs = <<>>
    /\ error = ""
    /\ log = ""
    /\ seqdata = ReferenceTable
    /\ seq_ratio \in AcceptRatios
    /\ trimsequence = NoSeqTable
    /\ ClassifierIdle /\ ResolverIdle /\ BackIdle
    /\ DistIdle /\ ScoreIdle /\ AggIdle /\ CisIdle

\* one pass of the loop body: the label puts the structure on its list, then
\* its chain column is joined to seqdata; any exception puts it on
\* excluded_pdbs and goes on with the next structure
ProcessStructure ==
    /\ "total_used" \notin done
    /\ raised = {}
    /\ pos <= Len(pdblist)
    /\ LET s == pdblist[pos]
           pdbid == PdbId(pos)
           used == s.cif_ok /\ s.mut_judge # "UniProt ID mismatch"
       IN  /\ nor_pdblist' = IF s.cif_ok /\ s.mut_judge = "normal"
                             THEN Append(nor_pdblist, pdbid) ELSE nor_pdblist
           /\ sub_pdblist' = IF s.cif_ok /\ s.mut_judge = "substitution"
                             THEN Append(sub_pdblist, pdbid) ELSE sub_pdblist
           /\ chi_pdblist' = IF s.cif_ok /\ s.mut_judge = "chimera"
                             THEN Append(chi_pdblist, pdbid) ELSE chi_pdblist
           /\ din_pdblist' = IF s.cif_ok /\ s.mut_judge = "delins"
                             THEN Append(din_pdblist, pdbid) ELSE din_pdblist
           /\ excluded_pdbs' = IF used /\ s.seq_ok THEN excluded_pdbs
                               ELSE Append(excluded_pdbs, pdbid)
           /\ seqdata' = IF used /\ s.seq_ok
                         THEN ConcatColumn(seqdata, pdbid \o " A", SeqColumn(s.beg))
                         ELSE seqdata
    /\ pos' = pos + 1
    /\ UNCHANGED <<resolverVars, backVars, done, raised, classifierVars, pdblist, error, log, seq_ratio,
                   trimsequence, distVars, scoreVars, aggVars, cisVars>>

\* total_used, the number of structures on the four label lists
TotalUsed ==
    Len(nor_pdblist) + Len(sub_pdblist) + Len(chi_pdblist) + Len(din_pdblist)

\* after the loop: fewer than 2 used structures raise
CheckTotalUsed ==
    /\ pos > Len(pdblist)
    /\ "total_used" \notin done
    /\ raised = {}
    /\ IF TotalUsed < 2
       THEN /\ raised' = raised \cup {"run_dsa_pipeline"}
            /\ error' = TooFewStructures
            /\ UNCHANGED done
       ELSE /\ done' = done \cup {"total_used"}
            /\ UNCHANGED <<raised, error>>
    /\ UNCHANGED <<resolverVars, backVars, classifierVars, pdblist, pos, nor_pdblist, sub_pdblist, chi_pdblist,
                   din_pdblist, excluded_pdbs, log,
                   distVars, scoreVars, aggVars, trimVars, cisVars>>

NextAccept == ProcessStructure \/ CheckTotalUsed \/ SortSequence \/ CheckNumChains

SpecAccept == InitAccept /\ [][NextAccept]_vars

-----------------------------------------------------------------------------
(* Identifier resolution: _resolve_active_uniprot_id of data_sources/uniprot.py
   and UniprotData.__init__ with _check_and_resolve of uniprot_data.py *)

AccessionNames == <<"OLD", "NEW", "MID", "ALT", "ODD">>

UniprotIds == {AccessionNames[i] : i \in 1..MaxIds}

\* the JSON of an entry that is not Inactive
ActiveEntry(id) ==
    [status |-> 200, primaryAccession |-> id, entryType |-> "UniProtKB reviewed (Swiss-Prot)",
     inactiveReasonType |-> "", mergeDemergeTo |-> <<>>]

\* the JSON of an Inactive entry, with its inactiveReason
InactiveEntry(id, reason, targets) ==
    [status |-> 200, primaryAccession |-> id, entryType |-> "Inactive",
     inactiveReasonType |-> reason, mergeDemergeTo |-> targets]

\* the service knows no such accession
UnknownEntry ==
    [status |-> 404, primaryAccession |-> "", entryType |-> "",
     inactiveReasonType |-> "", mergeDemergeTo |-> <<>>]

EntriesOf(id) ==
    {ActiveEntry(id), InactiveEntry(id, "DELETED", <<>>), UnknownEntry}
    \cup {InactiveEntry(id, reason, <<t>>) : reason \in {"MERGED", "DEMERGED"},
                                            t \in UniprotIds}

EntryTables(ids) == {e \in [ids -> UNION {EntriesOf(id) : id \in ids}] :
                       \A id \in ids : e[id] \in EntriesOf(id)}

\* the exceptions of the resolvers
RedirectLoop == "RuntimeError: redirect loop"
TargetUnknown == "RuntimeError: Inactive, target unknown"
HTTPError == "HTTPError"
XmlError == "HTTPError or KeyError: No entry found in UniProt XML"

InitResolve ==
    /\ done = {}
    /\ raised = {}
    /\ entries \in EntryTables(UniprotIds)
    /\ current_id \in UniprotIds
    /\ visited = {}
    /\ active_id = ""
    /\ original_id = ""
    /\ resolved_id = ""
    /\ is_redirected = FALSE
    /\ resolve_error = ""
    /\ ClassifierIdle /\ PipelineIdle /\ BackIdle
    /\ DistIdle /\ ScoreIdle /\ AggIdle /\ TrimIdle /\ CisIdle

\* one call of _resolve_active_uniprot_id(uniprot_id, _visited); reachable is
\* whether the request of _fetch_uniprot_json gets an answer
ResolveActiveUniprotId ==
    /\ "_resolve_active_uniprot_id" \notin done \cup raised
    /\ "_check_and_resolve" \notin done
    /\ \E reachable \in BOOLEAN :
        LET data == entries[current_id]
            merge_targets == data.mergeDemergeTo
        IN  IF current_id \in visited
            THEN /\ raised' = raised \cup {"_resolve_active_uniprot_id"}
                 /\ resolve_error' = RedirectLoop
                 /\ UNCHANGED <<done, current_id, visited, active_id>>
            ELSE /\ visited' = visited \cup {current_id}
                 /\ IF ~reachable \/ data.status # 200
                    THEN /\ raised' = raised \cup {"_resolve_active_uniprot_id"}
                         /\ resolve_error' = HTTPError
                         /\ UNCHANGED <<done, current_id, active_id>>
                    ELSE IF data.entryType = "Inactive"
                    THEN IF Len(merge_targets) > 0
                         THEN /\ current_id' = merge_targets[1]
                              /\ UNCHANGED <<done, raised, active_id, resolve_error>>
                         ELSE /\ raised' = raised \cup {"_resolve_active_uniprot_id"}
                              /\ resolve_error' = TargetUnknown
                              /\ UNCHANGED <<done, current_id, active_id>>
                    ELSE /\ active_id' = current_id
                         /\ done' = done \cup {"_resolve_active_uniprot_id"}
                         /\ UNCHANGED <<raised, current_id, resolve_error>>
    /\ UNCHANGED <<original_id, resolved_id, is_redirected, entries,
                   classifierVars, pipelineVars, backVars,
                   distVars, scoreVars, aggVars, trimVars, cisVars>>

\* UniprotData._check_obsolete_history(id); results is what the search answers
\* (no answer and an answer without results are both <<>>)
CheckObsoleteHistory(id, results) ==
    IF Len(results) > 0 THEN results[1] ELSE id

\* UniprotData._check_and_resolve(id)
CheckAndResolve(table, id, reachable, results) ==
    LET data == table[id]
        reason_type == data.inactiveReasonType
        merged_into == data.mergeDemergeTo
    IN  IF ~reachable THEN id
        ELSE IF data.status = 404 THEN CheckObsoleteHistory(id, results)
        ELSE IF data.entryType = "Inactive" /\ reason_type = "DEMERGED" /\ Len(merged_into) > 0
        THEN merged_into[1]
        ELSE IF data.entryType = "Inactive" /\ reason_type = "MERGED" /\ Len(merged_into) > 0
        THEN merged_into[1]
        ELSE IF data.primaryAccession # "" THEN data.primaryAccession
        ELSE id

\* unidata = UniprotData(uniprot_id): the identifier fields, then the request of
\* the XML of resolved_id, which raises on an error status or without entry
UniprotDataInit ==
    /\ "_check_and_resolve" \notin done
    /\ visited = {}
    /\ \E reachable \in BOOLEAN, xml_ok \in BOOLEAN,
          results \in {<<>>} \cup {<<id>> : id \in UniprotIds} :
        LET resolved == CheckAndResolve(entries, current_id, reachable, results)
        IN  /\ original_id' = current_id
            /\ resolved_id' = resolved
            /\ is_redirected' = (resolved # current_id)
            /\ IF xml_ok /\ entries[resolved].status = 200
               THEN /\ done' = done \cup {"_check_and_resolve", "UniprotData"}
                    /\ UNCHANGED <<raised, resolve_error>>
               ELSE /\ done' = done \cup {"_check_and_resolve"}
                    /\ raised' = raised \cup {"UniprotData"}
                    /\ resolve_error' = XmlError
    /\ UNCHANGED <<entries, current_id, visited, active_id,
                   classifierVars, pipelineVars, backVars,
                   distVars, scoreVars, aggVars, trimVars, cisVars>>

NextResolve == ResolveActiveUniprotId \/ UniprotDataInit

SpecResolve == InitResolve /\ [][NextResolve]_vars

-----------------------------------------------------------------------------
(* sequence.py: getcoord, the residue coordinate table of a trimmed table *)

\* what _parse_pdb_chain_column_name gives for a name that is not two words
NoPdbChain == [pdbid |-> "", chain |-> ""]

\* _parse_pdb_chain_column_name(col): the two words of "<pdbid> <chain>"
ParsePdbChainColumnName(col) ==
    IF \E k \in 1..9 : col = ChainName(k)
    THEN [pdbid |-> "S" \o ToString(CHOOSE k \in 1..9 : col = ChainName(k)), chain |-> "A"]
    ELSE NoPdbChain

\* PDBChain.label
PdbChainLabel(pc) == pc.pdbid \o " " \o pc.chain

\* no file <pdbid>.csv in atom_coord/
NoCoordFile == [exists |-> FALSE, readable |-> FALSE, rows |-> <<>>]

\* _find_coord_file(pc, atom_coord_base), None as NoCoordFile
FindCoordFile(pc, dir) ==
    IF pc.pdbid \in DOMAIN dir THEN dir[pc.pdbid] ELSE NoCoordFile

\* _load_coord_table(path): the x, y, z columns of the rows of the file
LoadCoordTable(file) ==
    [i \in 1..Len(file.rows) |-> <<file.rows[i].x, file.rows[i].y, file.rows[i].z>>]

\* step 2-3 of getcoord: pad with NaN at the end, or cut to num_residues rows
FitToResidues(coord_df, num_residues) ==
    [i \in 1..num_residues |->
        IF i <= Len(coord_df) THEN coord_df[i] ELSE <<NaN, NaN, NaN>>]

\* the columns getcoord appends for the chain column col: none when the name
\* cannot be parsed or the file is missing or unreadable, else the label
\* column and the x, y, z columns
CoordBlock(col, dir, num_residues) ==
    LET pc == ParsePdbChainColumnName(col)
        file == FindCoordFile(pc, dir)
        coord_df == FitToResidues(LoadCoordTable(file), num_residues)
    IN  IF pc = NoPdbChain \/ ~file.exists \/ ~file.readable THEN <<>>
        ELSE << [i \in 1..num_residues |-> PdbChainLabel(pc)],
                [i \in 1..num_residues |-> coord_df[i][1]],
                [i \in 1..num_residues |-> coord_df[i][2]],
                [i \in 1..num_residues |-> coord_df[i][3]] >>

RECURSIVE CoordBlocks(_, _, _, _)
CoordBlocks(columns, c, dir, num_residues) ==
    IF c > Len(columns) THEN <<>>
    ELSE CoordBlock(columns[c], dir, num_residues)
             \o CoordBlocks(columns, c + 1, dir, num_residues)

\* getcoord(trimsequence, atom_coord_dir) when it returns
getcoord(ts, dir) ==
    LET uniprot_residues == ts.data[1]
        num_residues == Len(uniprot_residues)
    IN  <<uniprot_residues>> \o CoordBlocks(ts.columns, 2, dir, num_residues)

\* getcoord raises ValueError for a table without chain column, and
\* RuntimeError when no chain column got coordinates
GetCoordError(ts, dir) ==
    IF Len(ts.columns) < 2 THEN "ValueError"
    ELSE IF Len(getcoord(ts, dir)) = 1 THEN "RuntimeError"
    ELSE ""

\* the chain entry getsequence gives for residue number n
TokenOf(n) == ResidueName(n) \o ", " \o ToString(n)

\* position (mA) of the C-alpha of residue number n
CoordRow(n) ==
    [seq_id |-> n, x |-> Fin(RatInt(n * n)), y |-> Fin(RatZero), z |-> Fin(RatZero)]

\* coordinate files for a chain of N residues: none, unreadable, one row per
\* residue, the last residue absent, one residue more, the first residue absent
CoordFiles(N) ==
    { NoCoordFile,
      [exists |-> TRUE, readable |-> FALSE, rows |-> <<>>] }
    \cup { [exists |-> TRUE, readable |-> TRUE, rows |-> [i \in 1..n |-> CoordRow(i)]] :
             n \in {N - 1, N, N + 1} }
    \cup { [exists |-> TRUE, readable |-> TRUE, rows |-> [i \in 1..(N - 1) |-> CoordRow(i + 1)]] }

\* trimmed tables of N rows and K chains; chain k lacks its entry at row
\* gap[k] (0: no entry is missing)
CoordSeqTable(N, K, gap) ==
    [columns |-> [c \in 1..(K + 1) |-> IF c = 1 THEN UniprotId ELSE ChainName(c - 1)],
     data |-> [c \in 1..(K + 1) |-> [i \in 1..N |->
                  IF c = 1 THEN ResidueName(i)
                  ELSE IF gap[c - 1] = i THEN NaS ELSE TokenOf(i)]]]

InitCoord ==
    /\ done = {"num_chains"}
    /\ raised = {}
    /\ \E N \in 1..MaxCoordRows, K \in 0..MaxCoordChains :
          /\ \E gap \in [1..K -> 0..N] : trimsequence = CoordSeqTable(N, K, gap)
          /\ atom_coord_dir \in [{PdbId(k) : k \in 1..K} -> CoordFiles(N)]
    /\ seqdata = NoSeqTable /\ seq_ratio = RatZero
    /\ error = ""
    /\ DistIdle /\ ScoreIdle /\ AggIdle /\ CisIdle
    /\ ClassifierIdle /\ ResolverIdle /\ FilterIdle /\ SequenceIdle /\ FlexIdle /\ LogIdle
    /\ pdblist = <<>> /\ pos = 0
    /\ nor_pdblist = <<>> /\ sub_pdblist = <<>> /\ chi_pdblist = <<>> /\ din_pdblist = <<>>
    /\ excluded_pdbs = <<>> /\ log = ""

\* step 5 when an error of getcoord sends the run back to the trimming
GetCoordRestartTrimming ==
    /\ "num_chains" \in done
    /\ "getcoord" \notin done
    /\ raised = {}
    /\ IF GetCoordError(trimsequence, atom_coord_dir) # ""
       THEN /\ done' = done \ {"sort_sequence", "num_chains"}
            /\ UNCHANGED <<raised, error, atomcoord>>
       ELSE /\ atomcoord' = getcoord(trimsequence, atom_coord_dir)
            /\ done' = done \cup {"getcoord"}
            /\ UNCHANGED <<raised, error>>
    /\ UNCHANGED <<calc, distance, scoreVars, aggVars, trimVars, cisVars,
                   classifierVars, resolverVars, backVars,
                   pdblist, pos, nor_pdblist, sub_pdblist, chi_pdblist, din_pdblist,
                   excluded_pdbs, log>>

\* step 5: atomcoord = getcoord(trimsequence, atom_coord_dir)
GetCoord ==
    /\ "num_chains" \in done
    /\ "getcoord" \notin done
    /\ raised = {}
    /\ IF GetCoordError(trimsequence, atom_coord_dir) # ""
       THEN /\ raised' = raised \cup {"getcoord"}
            /\ error' = GetCoordError(trimsequence, atom_coord_dir)
            /\ UNCHANGED <<done, atomcoord>>
       ELSE /\ atomcoord' = getcoord(trimsequence, atom_coord_dir)
            /\ done' = done \cup {"getcoord"}
            /\ UNCHANGED <<raised, error>>
    /\ UNCHANGED <<calc, distance, scoreVars, aggVars, trimVars, cisVars,
                   classifierVars, resolverVars, backVars,
                   pdblist, pos, nor_pdblist, sub_pdblist, chi_pdblist, din_pdblist,
                   excluded_pdbs, log>>

\* step 6 on the table of step 5
GetDistance2OfCoord ==
    /\ "getcoord" \in done
    /\ GetDistance2

NextCoord == GetCoord \/ GetDistance2OfCoord

SpecCoord == InitCoord /\ [][NextCoord]_vars

-----------------------------------------------------------------------------
(* data_sources/uniprot.py, parser.py: CA coordinates of the downloaded     *)
(* files, with the files of another residue count left out                  *)

\* base_dir / f"{pdb_id}.pdb" for the k-th selected structure, with the
\* number of residues of chain A that have a CA atom
PdbFile(k, n) == [name |-> PdbId(k) \o ".pdb", residues |-> n]

\* the lists of downloaded files: distinct PDB ids, at least one file
PathLists(maxLen, maxRes) ==
    UNION {{[i \in 1..L |-> PdbFile(i, f[i])] : f \in [1..L -> 0..maxRes]} : L \in 1..maxLen}

\* what a call yields: the exception class and message with the path named
\* in it, or the common residue count of the combined array
Extracted(n) == [error |-> "", msg |-> "", file_path |-> "", residues |-> n]
ExtractError(msg, path) == [error |-> "ValueError", msg |-> msg, file_path |-> path, residues |-> 0]

\* extract_ca_coords_from_file(file_path): N = 0 raises
extract_ca_coords_from_file(file) ==
    IF file.residues = 0 THEN ExtractError("No CA atoms found in chain", "")
    ELSE Extracted(file.residues)

\* the loop of extract_ca_coords_from_files from the i-th file on
RECURSIVE ExtractFrom(_, _, _)
ExtractFrom(file_paths, i, expected_n) ==
    IF i > Len(file_paths)
    THEN IF file_paths = <<>>
         THEN ExtractError("need at least one array to concatenate", "")
         ELSE Extracted(expected_n)
    ELSE LET one == extract_ca_coords_from_file(file_paths[i])
         IN  IF one.error # "" THEN one
             ELSE IF i = 1 THEN ExtractFrom(file_paths, 2, one.residues)
             ELSE IF one.residues # expected_n
                  THEN ExtractError("Residue count mismatch", file_paths[i].name)
                  ELSE ExtractFrom(file_paths, i + 1, expected_n)

extract_ca_coords_from_files(file_paths) == ExtractFrom(file_paths, 1, 0)

\* the first p of remaining with p.name in msg, 0 for None; the ids are
\* distinct and of one length, so a name is in the message when it is the
\* path of the message
BadPath(paths, res) ==
    IF \E i \in 1..Len(paths) : paths[i].name = res.file_path
    THEN CHOOSE i \in 1..Len(paths) :
            /\ paths[i].name = res.file_path
            /\ \A j \in 1..(i - 1) : paths[j].name # res.file_path
    ELSE 0

\* list.remove of the element at position i
RemoveAt(s, i) == SubSeq(s, 1, i - 1) \o SubSeq(s, i + 1, Len(s))

InitFilter ==
    /\ done = {}
    /\ raised = {}
    /\ pdb_paths \in PathLists(MaxPaths, MaxFileResidues)
    /\ remaining = pdb_paths
    /\ removed = <<>>
    /\ atom_coord_dir = <<>> /\ SequenceIdle /\ FlexIdle /\ LogIdle
    /\ DistIdle /\ ScoreIdle /\ AggIdle /\ TrimIdle /\ CisIdle
    /\ ClassifierIdle /\ PipelineIdle /\ ResolverIdle

\* one pass of the while loop of _extract_coords_with_filtering
ExtractCoordsWithFiltering ==
    /\ "_extract_coords_with_filtering" \notin done
    /\ raised = {}
    /\ LET res == extract_ca_coords_from_files(remaining)
           bad == BadPath(remaining, res)
       IN  IF res.error = ""
           THEN /\ done' = done \cup {"_extract_coords_with_filtering"}
                /\ UNCHANGED <<raised, error, remaining, removed>>
           ELSE IF res.msg # "Residue count mismatch" \/ bad = 0
           THEN /\ raised' = raised \cup {"_extract_coords_with_filtering"}
                /\ error' = res.error
                /\ UNCHANGED <<done, remaining, removed>>
           ELSE /\ remaining' = RemoveAt(remaining, bad)
                /\ removed' = Append(removed, remaining[bad])
                /\ IF Len(remaining') < 2
                   THEN /\ raised' = raised \cup {"_extract_coords_with_filtering"}
                        /\ error' = "RuntimeError"
                   ELSE UNCHANGED <<raised, error>>
                /\ UNCHANGED done
    /\ UNCHANGED <<distVars, scoreVars, aggVars, trimVars, cisVars, classifierVars,
                   resolverVars, atom_coord_dir, sequenceVars, flexVars, logVars, pdb_paths,
                   pdblist, pos, nor_pdblist, sub_pdblist, chi_pdblist, din_pdblist,
                   excluded_pdbs, log>>

NextFilter == ExtractCoordsWithFiltering

SpecFilter == InitFilter /\ [][NextFilter]_vars

\* the loop is never left waiting: a pass is taken whenever one is due
FairSpecFilter == SpecFilter /\ WF_vars(ExtractCoordsWithFiltering)

-----------------------------------------------------------------------------
(* cif_data.py: the insertion correction of CifData.getsequence             *)

\* the entry of a residue without monomer (pdb_mon_id "?"): None
NoMonomer == "None"

\* pdb_mon_id + ", " + pdb_seq_num
ChainEntry(mon_id, seq_num) == mon_id \o ", " \o ToString(seq_num)

\* i.split(", ")[1] of an entry, as a number
SplitSeqNum(i) ==
    CHOOSE n \in 1..(MaxChainLen + 1) : \E m \in 1..3 : i = ChainEntry(ResidueName(m), n)

\* the chain slices of a strand: author residue numbers from 1 that stay or
\* go up by one (residues with insertion codes share the number), an entry
\* None where the residue has no monomer
ChainSlices(maxLen) ==
    UNION {{[p \in 1..L |-> IF none[p] THEN NoMonomer
                            ELSE ChainEntry(ResidueName(p), 1 + SumSeq([q \in 1..(p - 1) |-> step[q + 1]]))] :
              none \in [1..L -> BOOLEAN], step \in {f \in [1..L -> 0..1] : f[1] = 0}} :
           L \in 1..maxLen}

\* the seq_num lists of the insertion annotations, in file order
InsertionLists(maxLen, maxNum) ==
    UNION {{s \in [1..n -> 1..maxNum] : \A k \in 1..(n - 1) : s[k] <= s[k + 1]} : n \in 0..maxLen}

\* position of the first occurrence of x in list s (list.remove, list.index)
FirstIndex(s, x) == CHOOSE k \in 1..Len(s) : s[k] = x /\ \A j \in 1..(k - 1) : s[j] # x

\* list.remove(x) for x in s
ListRemove(s, x) == RemoveAt(s, FirstIndex(s, x))

Contains(s, x) == \E k \in 1..Len(s) : s[k] = x

\* "for n in insertion:" from the k-th element on, for the entry i: a match
\* removes n from insertion and i from chain, and the loop goes on with the
\* next position of the shortened list
RECURSIVE InsertionInner(_, _, _, _)
InsertionInner(ch, ins, i, k) ==
    IF k > Len(ins) THEN [chain |-> ch, insertion |-> ins, error |-> ""]
    ELSE IF ins[k] = SplitSeqNum(i)
         THEN IF ~Contains(ch, i)
              THEN [chain |-> ch, insertion |-> ListRemove(ins, ins[k]), error |-> "ValueError"]
              ELSE InsertionInner(ListRemove(ch, i), ListRemove(ins, ins[k]), i, k + 1)
         ELSE InsertionInner(ch, ins, i, k + 1)

\* "for i in chain:" from position idx on: the iterator reads chain[idx] of
\* the list as it is then, and stops at the end of the list as it is then
RECURSIVE InsertionOuter(_, _, _)
InsertionOuter(ch, ins, idx) ==
    IF idx > Len(ch) THEN [chain |-> ch, insertion |-> ins, error |-> ""]
    ELSE IF ch[idx] = NoMonomer THEN InsertionOuter(ch, ins, idx + 1)
    ELSE LET r == InsertionInner(ch, ins, ch[idx], 1)
         IN  IF r.error # "" THEN r ELSE InsertionOuter(r.chain, r.insertion, idx + 1)

InitSequence ==
    /\ done = {}
    /\ raised = {}
    /\ chain_slice \in ChainSlices(MaxChainLen)
    /\ seq_num_insertion \in InsertionLists(MaxInsertions, MaxChainLen)
    /\ chain = chain_slice
    /\ insertion = seq_num_insertion
    /\ atom_coord_dir = <<>> /\ FilterIdle /\ FlexIdle /\ LogIdle
    /\ DistIdle /\ ScoreIdle /\ AggIdle /\ TrimIdle /\ CisIdle
    /\ ClassifierIdle /\ PipelineIdle /\ ResolverIdle

\* the insertion branch of getsequence
InsertionCorrection ==
    /\ "insertion" \notin done
    /\ raised = {}
    /\ IF Len(insertion) # 0
       THEN LET r == InsertionOuter(chain, insertion, 1)
            IN  /\ chain' = r.chain
                /\ insertion' = r.insertion
                /\ IF r.error # ""
                   THEN /\ raised' = raised \cup {"getsequence"}
                        /\ error' = r.error
                        /\ UNCHANGED done
                   ELSE /\ done' = done \cup {"insertion"}
                        /\ UNCHANGED <<raised, error>>
       ELSE /\ done' = done \cup {"insertion"}
            /\ UNCHANGED <<raised, error, chain, insertion>>
    /\ UNCHANGED <<distVars, scoreVars, aggVars, trimVars, cisVars, classifierVars,
                   resolverVars, atom_coord_dir, filterVars, flexVars, logVars, chain_slice,
                   seq_num_insertion,
                   pdblist, pos, nor_pdblist, sub_pdblist, chi_pdblist, din_pdblist,
                   excluded_pdbs, log>>

NextSequence == InsertionCorrection

SpecSequence == InitSequence /\ [][NextSequence]_vars

-----------------------------------------------------------------------------
(* run_dsa_pipeline, step 3: the chain of a structure is padded and joined  *)
(* to seqdata as one more column                                            *)

\* the rows a frame of n index values has: range(n) is empty for n < 0
RangeLen(n) == IF n < 0 THEN 0 ELSE n

\* what position and getsequence give for a structure: the range beg..end
\* of the reference it covers, and a chain of m entries
ChainOf(beg, end, m) ==
    [beg |-> beg, end |-> end, raw_seq |-> [j \in 1..m |-> TokenOf(beg + j - 1)]]

\* the structures of a run: ranges within the reference, chains of up to one
\* entry more than the reference has
ChainLists(maxLen) ==
    LET one == {ChainOf(b, e, m) : b \in 1..ReferenceLength, e \in 1..ReferenceLength,
                                   m \in 0..(ReferenceLength + 1)}
    IN  UNION {[1..n -> {s \in one : s.beg <= s.end}] : n \in 1..maxLen}

\* pd.concat([df_beg, seq, df_end]) with reset_index: the column of seq
PaddedColumn(s) ==
    [i \in 1..RangeLen(s.beg - 1) |-> NaS] \o s.raw_seq
        \o [i \in 1..RangeLen(ReferenceLength - s.end) |-> NaS]

\* a column on the union of the two row indexes: missing past its end
Reindexed(column, rows) ==
    [i \in 1..rows |-> IF i <= Len(column) THEN column[i] ELSE NaS]

\* pd.concat([seqdata, seq], axis=1): an outer join on the row index; a
\* chain without entries gives a frame without column
ConcatOuter(sd, name, s) ==
    LET rows == IF Len(PaddedColumn(s)) > Len(sd.data[1])
                THEN Len(PaddedColumn(s)) ELSE Len(sd.data[1])
        old == [c \in 1..Len(sd.data) |-> Reindexed(sd.data[c], rows)]
    IN  IF Len(s.raw_seq) = 0 THEN [columns |-> sd.columns, data |-> old]
        ELSE [columns |-> Append(sd.columns, name),
              data |-> Append(old, Reindexed(PaddedColumn(s), rows))]

InitJoin ==
    /\ done = {}
    /\ raised = {}
    /\ pdblist \in ChainLists(MaxJoined)
    /\ pos = 1
    /\ nor_pdblist = <<>> /\ sub_pdblist = <<>> /\ chi_pdblist = <<>> /\ din_pdblist = <<>>
    /\ excluded_pdbs = <<>>
    /\ error = ""
    /\ log = ""
    /\ seqdata = ReferenceTable
    /\ seq_ratio \in AcceptRatios
    /\ trimsequence = NoSeqTable
    /\ ClassifierIdle /\ ResolverIdle /\ BackIdle
    /\ DistIdle /\ ScoreIdle /\ AggIdle /\ CisIdle

\* one pass of the loop body for a structure labelled normal whose file is
\* read without exception
JoinChain ==
    /\ "total_used" \notin done
    /\ raised = {}
    /\ pos <= Len(pdblist)
    /\ nor_pdblist' = Append(nor_pdblist, PdbId(pos))
    /\ seqdata' = ConcatOuter(seqdata, PdbId(pos) \o " A", pdblist[pos])
    /\ pos' = pos + 1
    /\ UNCHANGED <<resolverVars, backVars, done, raised, classifierVars, pdblist, error, log,
                   sub_pdblist, chi_pdblist, din_pdblist, excluded_pdbs, seq_ratio,
                   trimsequence, distVars, scoreVars, aggVars, cisVars>>

NextJoin == JoinChain \/ CheckTotalUsed \/ SortSequence

SpecJoin == InitJoin /\ [][NextJoin]_vars

-----------------------------------------------------------------------------
(* core.py: compute_uniprot_level_flex, the two-level flexibility analysis  *)

\* a conformation of N residues on a line, 1 A apart, opened by 1 A after
\* residue h (h = 0: not opened): the x coordinates
Conformation(N, h) == [i \in 1..N |-> IF h >= 1 /\ i > h THEN i + 1 ELSE i]

\* M_i of a structure group: one conformation (ddof = 0) or two (ddof = 1)
GroupSizes == {1, 2}

\* the lists of structure groups of one residue count
CoordLists(maxN, maxGroups) ==
    UNION {LET group == UNION {[1..M -> {Conformation(N, h) : h \in 0..(N - 1)}] :
                                 M \in GroupSizes}
           IN  UNION {[1..G -> group] : G \in 1..maxGroups} :
           N \in 1..maxN}

\* score_threshold: the default 0.5; flex_ratio_threshold: the default 0.5,
\* and 1 (a pair counts when every group marks it)
ScoreThresholds == {<<1, 2>>}
FlexRatioThresholds == {<<1, 2>>, <<1, 1>>}

\* calculate_distance_matrix(coords): the Euclidean distances of the
\* residues of one conformation
calculate_distance_matrix(conf) ==
    Array([i \in 1..Len(conf) |->
              Array([j \in 1..Len(conf) |-> Fin(RatInt(Abs(conf[i] - conf[j])))])])

\* distance_matrices[k] = calculate_distance_matrix(ca_coords[k])
DistanceMatrices(ca_coords) ==
    Array([k \in 1..Len(ca_coords) |-> calculate_distance_matrix(ca_coords[k])])

\* np.std(distance_matrices, axis=0, ddof=1 if M > 1 else 0) above the
\* diagonal
StdDistances(distance_matrices, M, N) ==
    Array([i \in 1..N |-> Array([j \in 1..N |->
        IF i >= j THEN Fin(RatZero)
        ELSE FStd(Array([k \in 1..M |-> distance_matrices[k][i][j]]),
                  IF M > 1 THEN 1 ELSE 0)])])

\* the whole matrix: a distance matrix is symmetric, so the entry (j, i) is
\* the entry (i, j); the diagonal is filled with 0
FillSymmetric(upper) ==
    Array([i \in 1..Len(upper) |-> Array([j \in 1..Len(upper) |->
        IF i < j THEN upper[i][j] ELSE IF i > j THEN upper[j][i] ELSE Fin(RatZero)])])

\* std_matrix of compute_dsa_and_flex_fast(ca_coords)
StdMatrix(ca_coords) ==
    FillSymmetric(StdDistances(DistanceMatrices(ca_coords), Len(ca_coords),
                               Len(ca_coords[1])))

\* x > threshold for a float x >= 0 held exactly and a threshold >= 0
Greater(x, threshold) == ~RatLeq(Square(x), RatMul(threshold, threshold))

\* std_matrix > score_threshold, the diagonal filled with False
MaskAbove(std_matrix, threshold) ==
    Array([i \in 1..Len(std_matrix) |-> Array([j \in 1..Len(std_matrix) |->
        IF i = j THEN FALSE ELSE Greater(std_matrix[i][j], threshold)])])

\* np.logical_or(flex_mask, flex_mask.T)
OrTranspose(flex_mask) ==
    Array([i \in 1..Len(flex_mask) |-> Array([j \in 1..Len(flex_mask) |->
        flex_mask[i][j] \/ flex_mask[j][i]])])

\* _create_flex_mask(std_matrix, score_threshold)
CreateFlexMask(std_matrix, threshold) == OrTranspose(MaskAbove(std_matrix, threshold))

\* the entries of row i from column j on, then the rows after row i
RECURSIVE FlattenFrom(_, _, _)
FlattenFrom(matrix, i, j) ==
    IF i > Len(matrix) THEN <<>>
    ELSE IF j > Len(matrix) THEN FlattenFrom(matrix, i + 1, i + 2)
    ELSE <<matrix[i][j]>> \o FlattenFrom(matrix, i, j + 1)

\* the upper triangle with the diagonal
FlattenWithDiagonal(matrix) == FlattenFrom(matrix, 1, 1)

\* _flatten_upper_triangle(matrix)
FlattenUpperTriangle(matrix) == FlattenFrom(matrix, 1, 2)

\* np.concatenate(structure_coords_list, axis=0)
RECURSIVE ConcatenateGroups(_)
ConcatenateGroups(list) ==
    IF list = <<>> THEN <<>> ELSE list[1] \o ConcatenateGroups(Tail(list))

\* count_flex = sum(mask[i, j] for mask in all_flex_masks)
RECURSIVE CountFlex(_, _, _)
CountFlex(masks, i, j) ==
    IF masks = <<>> THEN 0
    ELSE (IF masks[1][i][j] THEN 1 ELSE 0) + CountFlex(Tail(masks), i, j)

\* step 1: the flex mask of every structure group
AllFlexMasks(list, threshold) ==
    Array([g \in 1..Len(list) |-> CreateFlexMask(StdMatrix(list[g]), threshold)])

\* step 3: flex_presence_matrix, count_flex / num_structures for i < j and
\* the same value at (j, i); 0 on the diagonal
FlexPresenceMatrix(all_flex_masks, num_structures, N) ==
    Array([i \in 1..N |-> Array([j \in 1..N |->
        IF i = j THEN RatZero
        ELSE Rat(CountFlex(all_flex_masks, IF i < j THEN i ELSE j, IF i < j THEN j ELSE i),
                 num_structures)])])

\* step 4: condition A or condition B, the diagonal filled with False
FinalFlexMask(global_std, flex_presence_matrix, threshold, ratio_threshold) ==
    Array([i \in 1..Len(global_std) |-> Array([j \in 1..Len(global_std) |->
        IF i = j THEN FALSE
        ELSE \/ Greater(global_std[i][j], threshold)
             \/ RatLeq(ratio_threshold, flex_presence_matrix[i][j])])])

\* the UniProtLevelResult, of the masks and matrices of steps 1 to 4
UniProtLevelResult(list, all_flex_masks, flex_presence_matrix, final, threshold, ratio_threshold) ==
    [num_structures |-> Len(list),
     num_conformations_total |-> Len(ConcatenateGroups(list)),
     num_residues |-> Len(list[1][1]),
     per_structure_flex_mask |-> all_flex_masks,
     global_flex_mask |-> final,
     flex_presence_ratio |-> FlattenUpperTriangle(flex_presence_matrix),
     flex_ratio_threshold |-> ratio_threshold,
     score_threshold |-> threshold]

\* steps 3 to 5 on the masks of the groups and the global std matrix
FlexOfMasks(list, all_flex_masks, global_std, threshold, ratio_threshold) ==
    UniProtLevelResult(list, all_flex_masks,
        FlexPresenceMatrix(all_flex_masks, Len(list), Len(list[1][1])),
        FinalFlexMask(global_std,
                      FlexPresenceMatrix(all_flex_masks, Len(list), Len(list[1][1])),
                      threshold, ratio_threshold),
        threshold, ratio_threshold)

compute_uniprot_level_flex(list, threshold, ratio_threshold) ==
    FlexOfMasks(list, AllFlexMasks(list, threshold), StdMatrix(ConcatenateGroups(list)),
                threshold, ratio_threshold)

InitFlex ==
    /\ done = {}
    /\ raised = {}
    /\ structure_coords_list \in CoordLists(MaxFlexN, MaxFlexGroups)
    /\ score_threshold \in ScoreThresholds
    /\ flex_ratio_threshold \in FlexRatioThresholds
    /\ uniprot_level = <<>>
    /\ atom_coord_dir = <<>> /\ FilterIdle /\ SequenceIdle /\ LogIdle
    /\ DistIdle /\ ScoreIdle /\ AggIdle /\ TrimIdle /\ CisIdle
    /\ ClassifierIdle /\ PipelineIdle /\ ResolverIdle

ComputeUniprotLevelFlex ==
    /\ "compute_uniprot_level_flex" \notin done
    /\ uniprot_level' = compute_uniprot_level_flex(structure_coords_list, score_threshold,
                                                   flex_ratio_threshold)
    /\ done' = done \cup {"compute_uniprot_level_flex"}
    /\ UNCHANGED <<raised, distVars, scoreVars, aggVars, trimVars, cisVars, classifierVars,
                   pipelineVars, resolverVars, atom_coord_dir, filterVars, sequenceVars, logVars,
                   structure_coords_list, score_threshold, flex_ratio_threshold>>

NextFlex == ComputeUniprotLevelFlex

SpecFlex == InitFlex /\ [][NextFlex]_vars

-----------------------------------------------------------------------------
(* notebook_dsa_pipeline.py: generate_log_content, the one-row log of a run *)

\* the structures and chain ids the chain columns of a log table can name
LogStructures == {1, 2}
LogChains == {"A", "B"}

\* the column of chain c of structure k, "<pdbid> <chain>"
LogColumn(k, c) == PdbId(k) \o " " \o c

\* str(pdbdata.at["resolution", pdbid]): the value of the resolution property
\* of the cross-reference, with or without its unit, None for a structure
\* without one (NMR)
ResolutionCells == {"1.00", "2.00", "2.50 A", "None"}

\* the trimmed tables of n rows whose chain columns are distinct
LogTables(maxChains, maxRows) ==
    LET names == {LogColumn(k, c) : k \in LogStructures, c \in LogChains}
        lists == UNION {[1..n -> names] : n \in 1..maxChains}
        injective == {l \in lists : \A i, j \in 1..Len(l) : i # j => l[i] # l[j]}
    IN  {[columns |-> <<UniprotId>> \o l,
          data |-> [c \in 1..(Len(l) + 1) |-> [i \in 1..n |-> ResidueName(i)]]] :
            l \in injective, n \in 1..maxRows}

\* i.split(" ")[0] of a chain column
FirstWord(name) ==
    PdbId(CHOOSE k \in LogStructures : \E c \in LogChains : name = LogColumn(k, c))

\* "".join(char for char in str(reso) if char.isdigit() or char == ".")
DigitsAndDots(cell) ==
    CASE cell = "1.00" -> "1.00"
      [] cell = "2.00" -> "2.00"
      [] cell = "2.50 A" -> "2.50"
      [] cell = "None" -> ""

\* float(reso) of a string of digits and one dot
FloatOfDigits(text) ==
    CASE text = "1.00" -> <<1, 1>>
      [] text = "2.00" -> <<2, 1>>
      [] text = "2.50" -> <<5, 2>>

\* reso_list: one float per entry of pdbids that has digits
RECURSIVE ResoList(_, _)
ResoList(pd, pdbids) ==
    IF pdbids = <<>> THEN <<>>
    ELSE LET reso == DigitsAndDots(pd[Head(pdbids)])
         IN  (IF reso # "" THEN <<FloatOfDigits(reso)>> ELSE <<>>)
                 \o ResoList(pd, Tail(pdbids))

\* Decimal(str(x)).quantize(Decimal("0.01"), rounding=ROUND_HALF_UP), x >= 0
QuantizeHalfUp(x) == Rat((x[1] * 200 + x[2]) \div (2 * x[2]), 100)

\* sorted(set(pdbids), key=pdbids.index): the first occurrences, in order
RECURSIVE FirstOccurrences(_)
FirstOccurrences(pdbids) ==
    IF pdbids = <<>> THEN <<>>
    ELSE LET front == FirstOccurrences(SubSeq(pdbids, 1, Len(pdbids) - 1))
             last == pdbids[Len(pdbids)]
         IN  IF Contains(front, last) THEN front ELSE Append(front, last)

\* generate_log_content(pdbdata, len_sequence, trimsequence, ...): the columns
\* Entries, Chains, Length and Resolution of the frame it returns
generate_log_content(pd, ts) ==
    LET cols == Tail(ts.columns)
        pdbids == [i \in 1..Len(cols) |-> FirstWord(cols[i])]
        reso_list == ResoList(pd, pdbids)
        reso_ave == IF reso_list # <<>>
                    THEN QuantizeHalfUp(RatDiv(RatSum(reso_list), RatInt(Len(reso_list))))
                    ELSE RatZero
        seted == FirstOccurrences(pdbids)
    IN  [Entries |-> Len(seted), Chains |-> Len(pdbids), Length |-> Len(ts.data[1]),
         Resolution |-> reso_ave]

InitLog ==
    /\ done = {}
    /\ raised = {}
    /\ trimsequence \in LogTables(MaxLogChains, MaxLogChains)
    /\ pdbdata \in [{PdbId(k) : k \in LogStructures} -> ResolutionCells]
    /\ log_content = <<>>
    /\ seqdata = NoSeqTable /\ seq_ratio = RatZero
    /\ error = ""
    /\ DistIdle /\ ScoreIdle /\ AggIdle /\ CisIdle
    /\ ClassifierIdle /\ ResolverIdle /\ FilterIdle /\ SequenceIdle /\ FlexIdle
    /\ atom_coord_dir = <<>>
    /\ pdblist = <<>> /\ pos = 0
    /\ nor_pdblist = <<>> /\ sub_pdblist = <<>> /\ chi_pdblist = <<>> /\ din_pdblist = <<>>
    /\ excluded_pdbs = <<>> /\ log = ""

\* log = generate_log_content(unidata.pdbdata, len(sequence), trimsequence, ...)
GenerateLogContent ==
    /\ "generate_log_content" \notin done
    /\ raised = {}
    /\ log_content' = generate_log_content(pdbdata, trimsequence)
    /\ done' = done \cup {"generate_log_content"}
    /\ UNCHANGED <<raised, distVars, scoreVars, aggVars, trimVars, cisVars, classifierVars,
                   pipelineVars, resolverVars, atom_coord_dir, filterVars, sequenceVars,
                   flexVars, pdbdata>>

NextLog == GenerateLogContent

SpecLog == InitLog /\ [][NextLog]_vars

-----------------------------------------------------------------------------
(* dsa_pipeline.py: run_dsa_pipeline from the identifier to the result record *)

\* the structures of a whole run: the file cannot be read, normal from
\* slot 1, normal from slot 2, substitution from slot 1
RunStructureKinds == {0, 3, 4, 6}

RunPdbLists(maxLen) ==
    UNION { {[k \in 1..n |-> StructureAt(f[k])] : f \in [1..n -> RunStructureKinds]} :
            n \in 0..maxLen }

\* what the UniProt service knows when the run is given OLD: OLD is active,
\* demerged or merged into the active NEW, deleted, or unknown
RunEntryTables ==
    {[id \in UniprotIds |-> IF id = "OLD" THEN e ELSE ActiveEntry(id)] :
        e \in {ActiveEntry("OLD"), UnknownEntry,
               InactiveEntry("OLD", "DELETED", <<>>),
               InactiveEntry("OLD", "DEMERGED", <<"NEW">>),
               InactiveEntry("OLD", "MERGED", <<"NEW">>)}}

\* the coordinate file of a structure: none, or one row per reference residue
RunCoordFiles ==
    {NoCoordFile,
     [exists |-> TRUE, readable |-> TRUE,
      rows |-> [i \in 1..ReferenceLength |-> CoordRow(i)]]}

\* UniprotData.get_id(): the accessions of the entry of the XML
get_id(table, id) == <<table[id].primaryAccession>>

InitRun ==
    /\ done = {}
    /\ raised = {}
    /\ entries \in RunEntryTables
    /\ current_id = "OLD"
    /\ visited = {}
    /\ active_id = ""
    /\ original_id = ""
    /\ resolved_id = ""
    /\ is_redirected = FALSE
    /\ resolve_error = ""
    /\ pdblist \in RunPdbLists(MaxRunStructures)
    /\ atom_coord_dir \in [{PdbId(k) : k \in 1..Len(pdblist)} -> RunCoordFiles]
    /\ pos = 1
    /\ nor_pdblist = <<>> /\ sub_pdblist = <<>> /\ chi_pdblist = <<>> /\ din_pdblist = <<>>
    /\ excluded_pdbs = <<>>
    /\ error = ""
    /\ log = ""
    /\ seqdata = ReferenceTable
    /\ seq_ratio \in AcceptRatios
    /\ trimsequence = NoSeqTable
    /\ cis_threshold = DefaultCisThreshold /\ cis_dist = <<>> /\ cis_info = NoCisInfo
    /\ ClassifierIdle /\ DistIdle /\ ScoreIdle /\ AggIdle
    /\ FilterIdle /\ SequenceIdle /\ FlexIdle /\ LogIdle

\* step 1: uniprotids = unidata.get_id()
GetId ==
    /\ "UniprotData" \in done
    /\ "get_id" \notin done
    /\ raised = {}
    /\ uniprotids' = get_id(entries, resolved_id)
    /\ done' = done \cup {"get_id"}
    /\ UNCHANGED <<raised, distVars, scoreVars, aggVars, trimVars, cisVars, pipelineVars,
                   resolverVars, backVars, mmcifdict, struct_ref_seq, struct_ref_seq_dif,
                   mut_judge>>

\* step 3 follows steps 1 and 2
RunProcessStructure == "get_id" \in done /\ ProcessStructure

RunCheckTotalUsed == "get_id" \in done /\ CheckTotalUsed

\* step 6 follows step 5
RunGetDistance2 == raised = {} /\ GetDistance2OfCoord

\* step 7 follows step 6
RunGetScore == "getdistance2" \in done /\ raised = {} /\ GetScore

\* step 8 follows the pair statistics of step 7
RunDetectCisPairs == "compute_pair_statistics" \in done /\ raised = {} /\ DetectCisPairs

\* step 9 follows step 8
RunGenerateHeatmap == "detect_cis_pairs" \in done /\ GenerateHeatmap

NextRun ==
    \/ UniprotDataInit
    \/ GetId
    \/ RunProcessStructure
    \/ RunCheckTotalUsed
    \/ SortSequence
    \/ CheckNumChains
    \/ GetCoord
    \/ RunGetDistance2
    \/ RunGetScore
    \/ ComputeUmf
    \/ ComputePairStatistics
    \/ RunDetectCisPairs
    \/ RunGenerateHeatmap
    \/ PerResidueScoresFast
    \/ BuildResult

SpecRun == InitRun /\ [][NextRun]_vars

-----------------------------------------------------------------------------
(* C1 *)

\* number, sum and sum of squares of the non-missing cells of a row of whole
\* distances
ObsCount(cells) == Cardinality({k \in 1..Len(cells) : ~IsNaN(cells[k])})
ObsSum(cells) ==
    SumSeq([k \in 1..Len(cells) |-> IF IsNaN(cells[k]) THEN 0 ELSE cells[k][2][1]])
ObsSumSq(cells) ==
    SumSeq([k \in 1..Len(cells) |->
               IF IsNaN(cells[k]) THEN 0 ELSE cells[k][2][1] * cells[k][2][1]])

\* n^2 times the population variance of the non-missing cells
ObsVarN2(cells) == ObsCount(cells) * ObsSumSq(cells) - ObsSum(cells) * ObsSum(cells)

\* x is the finite float with x = a / b
EqualsRatio(x, a, b) == x[1] = "fin" /\ x[2][1] * b = a * x[2][2]

\* x is a finite float with x^2 = a / b
SquareEqualsRatio(x, a, b) == IsFinite(x) /\ Square(x)[1] * b = a * Square(x)[2]

\* mean / std / score of one row are those of its non-missing cells
RowScored(cells, r) ==
    LET n == ObsCount(cells)
        S == ObsSum(cells)
        V == ObsVarN2(cells)
    IN  /\ EqualsRatio(r.mean, S, n)
        /\ (V = 0) <=> (r.std = StdEpsilon)
        /\ V # 0 => SquareEqualsRatio(r.std, V, n * n)
        /\ IsFinite(r.score)
        /\ Square(r.score)[1] * Square(r.std)[1] * Square(r.mean)[2]
             = Square(r.score)[2] * Square(r.std)[2] * Square(r.mean)[1]
        /\ V = 0 => EqualsRatio(r.score, 10 * S, n)

-----------------------------------------------------------------------------
(* C2 *)

\* R is x rounded to the nearest integer, a tie going to the even neighbour
NearestEven(R, x) ==
    /\ 2 * Abs(R * x[2] - x[1]) <= x[2]
    /\ 2 * Abs(R * x[2] - x[1]) = x[2] => R % 2 = 0

\* the integer nearest to x, a tie going to the even neighbour
RoundedToEven(x) == CHOOSE R \in -4..4 : NearestEven(R, x)

\* sum of the squares of the three rounded coordinate differences of p and q
SumSqRounded(p, q) ==
    LET R1 == RoundedToEven(RatSub(p[1][2], q[1][2]))
        R2 == RoundedToEven(RatSub(p[2][2], q[2][2]))
        R3 == RoundedToEven(RatSub(p[3][2], q[3][2]))
    IN  R1 * R1 + R2 * R2 + R3 * R3

\* d is the distance of positions p and q: missing iff a coordinate is, and
\* otherwise the unrounded norm of the three rounded differences
IsRoundedNorm(d, p, q) ==
    IF \E c \in 1..3 : IsNaN(p[c]) \/ IsNaN(q[c]) THEN IsNaN(d)
    ELSE SquareEqualsRatio(d, SumSqRounded(p, q), 1)

\* d is a whole number m of mA, the norm of the rounded differences rounded
\* again: |m - norm| <= 1/2
IsRoundedRoundedNorm(d, p, q) ==
    IF \E c \in 1..3 : IsNaN(p[c]) \/ IsNaN(q[c]) THEN IsNaN(d)
    ELSE /\ d[1] = "fin"
         /\ d[2][2] = 1
         /\ d[2][1] >= 0
         /\ d[2][1] = 0 \/ (2 * d[2][1] - 1) * (2 * d[2][1] - 1) <= 4 * SumSqRounded(p, q)
         /\ 4 * SumSqRounded(p, q) <= (2 * d[2][1] + 1) * (2 * d[2][1] + 1)

\* every cell of the pair table and every calculat result satisfies P
AllDistances(P(_, _, _)) ==
    /\ "getdistance2" \in done =>
          \A c \in 1..Len(distance.cols) : \A r \in 1..Len(distance.rows) :
              P(distance.rows[r].cells[c],
                BlockAtoms(atomcoord, c - 1)[distance.rows[r].label[1]],
                BlockAtoms(atomcoord, c - 1)[distance.rows[r].label[2]])
    /\ "calculat" \in done =>
          \A b \in 1..Len(calc) : \A i, j \in 1..Len(atomcoord[1]) :
              P(calc[b][i][j], BlockAtoms(atomcoord, b - 1)[i], BlockAtoms(atomcoord, b - 1)[j])

\* C2 as stated: every non-missing pair distance is round(||round(1000 D)||) /
\* 1000, a whole number of thousandths of an Angstrom
C2_DistanceIsWholeThousandths == AllDistances(IsRoundedRoundedNorm)

\* C2 amended: every non-missing pair distance is ||rint(1000 D)|| / 1000, each
\* coordinate difference rounded half-to-even to whole thousandths and the norm
\* itself not rounded
C2_DistanceIsNormOfRounded == AllDistances(IsRoundedNorm)

\* a pair whose rounded differences have an irrational norm, with a tie that
\* went to the even neighbour
C2_Witness ==
    /\ "getdistance2" \in done
    /\ "calculat" \in done
    /\ \E r \in 1..Len(distance.rows) : \E c \in 1..Len(distance.cols) :
          distance.rows[r].cells[c][1] = "root"
    /\ \E r \in 1..Len(distance.rows) : \E c \in 1..Len(distance.cols) :
          distance.rows[r].cells[c] = Fin(RatInt(2))

-----------------------------------------------------------------------------
(* C3 *)

\* lexicographic order of pairs
LexLess(p, q) == p[1] < q[1] \/ (p[1] = q[1] /\ p[2] < q[2])

\* C3: getdistance2 yields exactly one row per (i, j), 0 <= i < j < N, that is
\* N (N - 1) / 2 rows, in lexicographic order, labelled "i+1, j+1"
C3_PairRows ==
    "getdistance2" \in done =>
        LET N == Len(atomcoord[1])
            rows == distance.rows
        IN  /\ 2 * Len(rows) = N * (N - 1)
            /\ \A r \in 1..Len(rows) :
                  /\ 1 <= rows[r].label[1]
                  /\ rows[r].label[1] < rows[r].label[2]
                  /\ rows[r].label[2] <= N
            /\ \A r, r2 \in 1..Len(rows) :
                  r < r2 => LexLess(rows[r].label, rows[r2].label)
            /\ \A i, j \in 0..(N - 1) :
                  i < j => \E r \in 1..Len(rows) : rows[r].label = <<i + 1, j + 1>>

\* a table of three residues has been turned into its three pair rows
C3_Witness ==
    /\ "getdistance2" \in done
    /\ Len(atomcoord[1]) = 3
    /\ Len(distance.rows) = 3

-----------------------------------------------------------------------------
(* C4 *)

\* the rows of a score table with a finite score, and the sum of their scores
\* (whole numbers in the tables of the aggregator)
FiniteRows(sc) == {r \in 1..Len(sc) : sc[r].score[1] = "fin"}
FiniteScoreSum(sc) ==
    SumSeq([r \in 1..Len(sc) |-> IF r \in FiniteRows(sc) THEN sc[r].score[2][1] ELSE 0])

\* C4: compute_umf returns the sum of the finite scores divided by their
\* number, rows with a NaN or infinite score left out, and pair_score_mean of
\* compute_pair_statistics is the same value
C4_UmfIsMeanOfFiniteScores ==
    /\ "compute_umf" \in done =>
          /\ FiniteRows(score) # {}
          /\ EqualsRatio(umf, FiniteScoreSum(score), Cardinality(FiniteRows(score)))
    /\ "compute_pair_statistics" \in done => pair_stats[1] = umf

\* both have returned on a table with an infinite score, a missing score or
\* none, and two finite ones
C4_Witness ==
    /\ "compute_umf" \in done
    /\ "compute_pair_statistics" \in done
    /\ \E r \in 1..Len(score) : score[r].score \in {Inf, NegInf}
    /\ Cardinality(FiniteRows(score)) = 2

-----------------------------------------------------------------------------
(* C5 *)

\* the entry of a heatmap list that stands for the float x
Listed(x) == IF IsNaN(x) THEN None ELSE x

\* h holds the score of every pair row at (i, j) and at (j, i), and NaN on the
\* diagonal
SymmetricHeatmap(h, sc, N) ==
    /\ Len(h) = N
    /\ \A r \in 1..Len(sc) :
          /\ h[sc[r].label[1]][sc[r].label[2]] = sc[r].score
          /\ h[sc[r].label[2]][sc[r].label[1]] = sc[r].score
    /\ \A i \in 1..N : IsNaN(h[i][i])

\* h holds the score of every pair row at (i, j), i < j, and NaN on and below
\* the diagonal
UpperTriangleHeatmap(h, sc, N) ==
    /\ Len(h) = N
    /\ \A i, j \in 1..N :
          /\ i < j => \E r \in 1..Len(sc) : sc[r].label = <<i, j>> /\ h[i][j] = sc[r].score
          /\ i >= j => IsNaN(h[i][j])

-----------------------------------------------------------------------------
(* C6 *)

\* the rows with a finite score in which residue i (1-based) is an endpoint,
\* and the sum of their scores
TouchingFinite(sc, i) ==
    {r \in FiniteRows(sc) : sc[r].label[1] = i \/ sc[r].label[2] = i}
TouchingSum(sc, i) ==
    SumSeq([r \in 1..Len(sc) |-> IF r \in TouchingFinite(sc, i) THEN sc[r].score[2][1] ELSE 0])

\* p holds, for every residue with a finite pair, the mean of its finite pairs
MeansOfTouching(p, sc, N) ==
    /\ Len(p) = N
    /\ \A i \in 1..N :
          TouchingFinite(sc, i) # {} =>
              EqualsRatio(p[i], TouchingSum(sc, i), Cardinality(TouchingFinite(sc, i)))

\* the scores _compute_dsa_core gives the pairs of residue i
CoreScoresOf(c, i) ==
    LET others == BoolIndex([j \in 1..Len(c[1]) |-> j], [j \in 1..Len(c[1]) |-> j # i])
    IN  [k \in 1..Len(others) |-> DsaCoreEntry(c, i, others[k]).score]

\* x is the mean of the finite floats v: x * n = sum when they are rational,
\* and the mean as a term otherwise
IsMeanOf(x, v) ==
    IF \A k \in 1..Len(v) : v[k][1] = "fin"
    THEN /\ x[1] = "fin"
         /\ RatMul(x[2], RatInt(Len(v))) = RatSum([k \in 1..Len(v) |-> v[k][2]])
    ELSE x = <<"mean", v>>

\* C6: the per-residue score of residue i is the mean of the finite scores of
\* the pair rows with i as first or second index; per_residue_scores_fast and
\* compute_per_residue_scores agree for every i; with a single pair both
\* residues get that pair's score; compute_dsa_stats reports the same means
C6_PerResidueIsMeanOfTouching ==
    /\ "per_residue_scores_fast" \in done =>
          MeansOfTouching(per_residue, score, Len(atomcoord[1]))
    /\ "compute_per_residue_scores" \in done =>
          MeansOfTouching(per_residue_slow, score, Len(atomcoord[1]))
    /\ ("per_residue_scores_fast" \in done /\ "compute_per_residue_scores" \in done) =>
          \A i \in 1..Len(atomcoord[1]) : per_residue[i] = per_residue_slow[i]
    /\ ("compute_per_residue_scores" \in done /\ Len(score) = 1 /\ FiniteRows(score) = {1}) =>
          per_residue_slow = <<score[1].score, score[1].score>>
    /\ "compute_dsa_stats" \in done =>
          \A i \in 1..Len(coords[1]) :
              Len(coords[1]) >= 2 =>
                  IsMeanOf(stats.per_residue_scores[i], CoreScoresOf(coords, i))

\* both reductions have run on a table of three residues in which residue 2
\* is second index of one finite row and first index of another
C6_Witness ==
    /\ "per_residue_scores_fast" \in done
    /\ "compute_per_residue_scores" \in done
    /\ Len(atomcoord[1]) = 3
    /\ TouchingFinite(score, 2) = {1, 3}
    /\ 2 \notin FiniteRows(score)

-----------------------------------------------------------------------------
(* C7 *)

\* C7: a residue without any finite pair has a missing per-residue score, in
\* the reduction and in per_residue_scores of the result record
C7_MissingStaysMissing ==
    /\ "per_residue_scores_fast" \in done =>
          \A i \in 1..Len(atomcoord[1]) :
              TouchingFinite(score, i) = {} => IsNaN(per_residue[i])
    /\ "result" \in done =>
          \A i \in 1..Len(atomcoord[1]) :
              TouchingFinite(score, i) = {} =>
                  result.per_residue_scores[i].score \in {NaN, None}

-----------------------------------------------------------------------------
(* C8 *)

\* the rows whose non-missing chain count is >= floor(K * n / d), that is
\* (count + 1) * d > K * n, for the ratio n/d and K chain columns
QualifyingRows(sd, ratio) ==
    {i \in 1..NumRows(sd) :
        (CountPerRow(sd, i) + 1) * ratio[2] > (Len(sd.columns) - 1) * ratio[1]}

-----------------------------------------------------------------------------
(* C9 *)

\* scenario S3: three chains of four residues, only chain 2 lacks the second
IsScenarioS3(sd) ==
    /\ Len(sd.columns) = 4
    /\ NumRows(sd) = 4
    /\ \A i \in 1..4 : \A c \in 2..4 : (sd.data[c][i] = NaS) <=> (i = 2 /\ c = 3)

\* C9: in scenario S3 trimming drops the second row iff seq_ratio > 2/3; with
\* seq_ratio 0.9 the result has N = 3 and with 0.5 it has N = 4
C9_ScenarioS3 ==
    ("sort_sequence" \in done /\ IsScenarioS3(seqdata)) =>
        /\ (NumRows(trimsequence) = 3) <=> (3 * seq_ratio[1] > 2 * seq_ratio[2])
        /\ seq_ratio = <<9, 10>> => NumRows(trimsequence) = 3
        /\ seq_ratio = <<1, 2>> => NumRows(trimsequence) = 4

-----------------------------------------------------------------------------
(* C10 *)

\* the non-missing whole distance d is <= the threshold n/d
WithinThreshold(cell, threshold) ==
    cell[1] = "fin" /\ cell[2][1] * threshold[2] <= threshold[1] * cell[2][2]

\* the pair rows with a non-missing distance <= threshold in some chain
EligibleRows(dist, threshold) ==
    {r \in 1..Len(dist.rows) :
        \E c \in 1..Len(dist.cols) : WithinThreshold(dist.rows[r].cells[c], threshold)}

\* C10: cis_pairs lists exactly the pairs with a non-missing distance
\* <= threshold in at least one chain, each once, in pair-table order; per
\* eligible pair cis_cnt counts the cells <= threshold, trans_cnt the cells
\* > threshold, and a missing cell is counted in neither
C10_CisPairsAreEligiblePairs ==
    "detect_cis_pairs" \in done =>
        LET E == EligibleRows(distance, cis_threshold)
        IN  /\ Len(cis_info.cis_pairs) = Cardinality(E)
            /\ Len(cis_dist) = Cardinality(E)
            /\ \A t \in 1..Cardinality(E) :
                  LET row == distance.rows[NthSmallest(E, t)]
                      K == Len(distance.cols)
                      cis == {c \in 1..K : WithinThreshold(row.cells[c], cis_threshold)}
                      missing == {c \in 1..K : IsNaN(row.cells[c])}
                  IN  /\ cis_info.cis_pairs[t] = row.label
                      /\ cis_dist[t].label = row.label
                      /\ cis_dist[t].cis_cnt = Cardinality(cis)
                      /\ cis_dist[t].trans_cnt = K - Cardinality(cis) - Cardinality(missing)

\* two eligible pairs found in the order second row, first row, the second
\* with a missing cell
C10_Witness ==
    /\ "detect_cis_pairs" \in done
    /\ Len(distance.rows) = 2
    /\ Len(distance.cols) = 2
    /\ distance.rows[1].cells = <<Fin(RatInt(4)), Fin(RatInt(3))>>
    /\ distance.rows[2].cells = <<Fin(RatInt(3)), NaN>>
    /\ Len(cis_info.cis_pairs) = 2

-----------------------------------------------------------------------------
(* C11 *)

\* the non-missing distance is > the threshold n/d
BeyondThreshold(cell, threshold) ==
    IsFinite(cell) /\ ~WithinThreshold(cell, threshold)

\* the eligible pair rows with no cell > threshold, and those with one
AllCisRows(dist, threshold) ==
    {r \in EligibleRows(dist, threshold) :
        \A c \in 1..Len(dist.cols) : ~BeyondThreshold(dist.rows[r].cells[c], threshold)}
MixedRows(dist, threshold) ==
    {r \in EligibleRows(dist, threshold) :
        \E c \in 1..Len(dist.cols) : BeyondThreshold(dist.rows[r].cells[c], threshold)}

\* C11: cis_num counts the eligible pairs with no trans cell in any chain and
\* mix those with at least one cis and one trans cell, so every eligible pair
\* is counted in exactly one of the two and none is eligible with trans cells
\* only: cis_num + mix = number of eligible pairs, both >= 0; the pair with
\* distances 3.2, 3.4, 3.6, 3.2, 5.0 at threshold 3.8 gives cis_num = 0, mix = 1
C11_CisNumAndMixPartition ==
    "detect_cis_pairs" \in done =>
        /\ cis_info.cis_num = Cardinality(AllCisRows(distance, cis_threshold))
        /\ cis_info.mix = Cardinality(MixedRows(distance, cis_threshold))
        /\ cis_info.cis_num >= 0
        /\ cis_info.mix >= 0
        /\ cis_info.cis_num + cis_info.mix
              = Cardinality(EligibleRows(distance, cis_threshold))
        /\ cis_info.cis_num + cis_info.mix = Len(cis_info.cis_pairs)
        /\ distance = MixedPairTable => cis_info.cis_num = 0 /\ cis_info.mix = 1

\* the five-chain pair has been classified as mixed
C11_Witness ==
    /\ "detect_cis_pairs" \in done
    /\ distance = MixedPairTable
    /\ cis_threshold = DefaultCisThreshold
    /\ cis_info.mix = 1
    /\ cis_info.cis_pairs = <<PairLabel(<<0, 1>>)>>

\* an all-cis pair with a missing cell next to a mixed pair
C11_WitnessMissing ==
    /\ "detect_cis_pairs" \in done
    /\ Len(distance.rows) = 2
    /\ distance.rows[1].cells = <<Fin(RatInt(3)), NaN>>
    /\ distance.rows[2].cells = <<Fin(RatInt(3)), Fin(RatInt(4))>>
    /\ cis_info.cis_num = 1
    /\ cis_info.mix = 1

-----------------------------------------------------------------------------
(* C12 *)

\* details that are no sequence difference for the classification
IgnoredDetails == {"expression tag", "linker", "conflict", "microheterogeneity"}

\* the cross-reference rows of the file that name the reference protein, and
\* the chains they belong to
MatchingRefRows ==
    {k \in 1..Len(mmcifdict.ref) : Has(uniprotids, Upper(mmcifdict.ref[k].accession))}
CrossReferencingChains == {mmcifdict.ref[k].strand_id : k \in MatchingRefRows}

\* the annotation rows of the file on cross-referencing chains, and those of
\* them that are retained
ChainAnnotations ==
    {k \in 1..Len(mmcifdict.dif) : mmcifdict.dif[k].strand_id \in CrossReferencingChains}
RetainedAnnotations ==
    {k \in ChainAnnotations : Lower(mmcifdict.dif[k].details) \notin IgnoredDetails}
RetainedDetails == {Lower(mmcifdict.dif[k].details) : k \in RetainedAnnotations}

\* two retained rows of one chain share a structure-side or a reference-side
\* residue number
RepeatedResidueNumber ==
    \E i, j \in RetainedAnnotations :
        /\ i # j
        /\ mmcifdict.dif[i].strand_id = mmcifdict.dif[j].strand_id
        /\ \/ mmcifdict.dif[i].seq_num = mmcifdict.dif[j].seq_num
           \/ mmcifdict.dif[i].db_seq_num = mmcifdict.dif[j].db_seq_num

\* a chain identifier occurs in two of the given cross-reference rows
ChainRepeatedAmong(rows) ==
    \E i, j \in rows : i # j /\ mmcifdict.ref[i].strand_id = mmcifdict.ref[j].strand_id

\* the file has a microheterogeneity row on a cross-referencing chain
HasMicroheterogeneity ==
    \E k \in ChainAnnotations : Lower(mmcifdict.dif[k].details) = "microheterogeneity"

\* a structure with cross-referencing chains, no chain identifier repeated
\* in its cross-reference table and no microheterogeneity row
PlainStructure ==
    /\ MatchingRefRows # {}
    /\ ~ChainRepeatedAmong(1..Len(mmcifdict.ref))
    /\ ~HasMicroheterogeneity

\* C12: a structure is labelled delins whenever the retained annotation rows
\* of some cross-referencing chain repeat a structure-side or a reference-side
\* residue number, also when a retained detail is 'engineered mutation'
\* (stated for structures that are not chimeric and carry no
\* microheterogeneity row)
C12_DuplicatesGiveDelins ==
    ("mutationjudge" \in done /\ PlainStructure /\ RepeatedResidueNumber)
        => mut_judge = "delins"

\* the override does apply when no retained detail is 'engineered mutation'
C12_DelinsWithoutEngineered ==
    ("mutationjudge" \in done /\ PlainStructure /\ RepeatedResidueNumber
        /\ "engineered mutation" \notin RetainedDetails)
        => mut_judge = "delins"

-----------------------------------------------------------------------------
(* C13 *)

\* C13: a non-chimeric structure with at least one retained annotation row
\* and no repeated residue number is labelled substitution if and only if a
\* retained detail is 'engineered mutation', and normal otherwise
C13_SubstitutionIffEngineered ==
    ("mutationjudge" \in done /\ PlainStructure /\ RetainedAnnotations # {}
        /\ ~RepeatedResidueNumber)
        => /\ mut_judge = "substitution" <=> "engineered mutation" \in RetainedDetails
           /\ "engineered mutation" \notin RetainedDetails => mut_judge = "normal"

-----------------------------------------------------------------------------
(* C14 *)

\* the file without its annotation rows of an ignored detail
WithoutIgnored(mm) ==
    LET kept == SelectSeq(mm.dif, LAMBDA r : Lower(r.details) \notin IgnoredDetails)
    IN  [ref |-> mm.ref, has_dif |-> Len(kept) > 0, dif |-> kept]

\* the label of a file
LabelOf(mm) == mutationjudge(CifStructRefSeq(mm), CifStructRefSeqDif(mm), uniprotids)

\* C14: rows of detail 'expression tag', 'linker', 'conflict' or
\* 'microheterogeneity' never influence the label: a structure whose
\* cross-referencing chains carry only such rows is normal, and the label of
\* a structure equals the label of the same structure without such rows
C14_IgnoredDetailsNeverInfluence ==
    "mutationjudge" \in done =>
        /\ (/\ MatchingRefRows # {}
            /\ ~ChainRepeatedAmong(MatchingRefRows)
            /\ RetainedAnnotations = {}) => mut_judge = "normal"
        /\ mut_judge = LabelOf(WithoutIgnored(mmcifdict))

\* the part of the claim that holds: only ignored rows give normal
C14_OnlyIgnoredIsNormal ==
    ("mutationjudge" \in done /\ MatchingRefRows # {}
        /\ ~ChainRepeatedAmong(MatchingRefRows) /\ RetainedAnnotations = {})
        => mut_judge = "normal"

-----------------------------------------------------------------------------
(* C15 *)

\* C15: the label is 'UniProt ID mismatch' if and only if no chain
\* cross-references the reference protein; otherwise it is chimera if and
\* only if a chain identifier occurs more than once among the
\* cross-reference rows that match the reference protein
C15_MismatchAndChimera ==
    "mutationjudge" \in done =>
        /\ mut_judge = "UniProt ID mismatch" <=> MatchingRefRows = {}
        /\ MatchingRefRows # {} =>
              (mut_judge = "chimera" <=> ChainRepeatedAmong(MatchingRefRows))

\* the part of the claim that holds: mismatch
C15_MismatchIffNoMatch ==
    "mutationjudge" \in done =>
        (mut_judge = "UniProt ID mismatch" <=> MatchingRefRows = {})

-----------------------------------------------------------------------------
(* C16 *)

\* the chains accepted into the alignment table by the structure loop
UsableChains == Len(seqdata.columns) - 1

\* C16: a run in which fewer than two usable chains were accepted by the
\* structure loop fails with the too-few-structures error before trimming:
\* it never passes the count of used structures, and the error it raises is
\* that of the count
C16_TooFewAcceptedFails ==
    (pos > Len(pdblist) /\ UsableChains < 2) =>
        /\ "total_used" \notin done
        /\ "sort_sequence" \notin done
        /\ "sort_sequence" \notin raised
        /\ "run_dsa_pipeline" \in raised => error = TooFewStructures

\* what the count does guarantee: with fewer than two labelled structures,
\* a single-structure run included, the run stops at the count
C16_FewerThanTwoLabelledFails ==
    (pos > Len(pdblist) /\ (TotalUsed < 2 \/ Len(pdblist) < 2)) =>
        /\ "total_used" \notin done
        /\ "sort_sequence" \notin done
        /\ "run_dsa_pipeline" \in raised => error = TooFewStructures

\* a run with fewer than two usable chains never passes the chain count of
\* step 4
C16_NoResultWithoutTwoChains ==
    (pos > Len(pdblist) /\ UsableChains < 2) => "num_chains" \notin done

-----------------------------------------------------------------------------
(* C17 *)

\* C17: after trimming, a table with fewer than 2 residue rows or fewer than
\* 3 chain columns stops the run: neither run_dsa_pipeline nor run_DSA goes
\* on to the coordinate assembly
C17_InsufficientAlignmentStops ==
    ("sort_sequence" \in done
        /\ (NumRows(trimsequence) < 2 \/ Len(trimsequence.columns) - 1 < 3))
        => "num_chains" \notin done /\ "trimseqcol" \notin done

\* what the checks do guarantee: run_dsa_pipeline goes on with at least 2
\* chains, run_DSA with at least 3, both with at least 1 residue row
C17_ChainChecks ==
    /\ "num_chains" \in done =>
          Len(trimsequence.columns) - 1 >= 2 /\ NumRows(trimsequence) >= 1
    /\ "trimseqcol" \in done =>
          Len(trimsequence.columns) - 1 >= CHAIN_THRESHOLD /\ NumRows(trimsequence) >= 1
    /\ ("run_DSA" \in done /\ "sort_sequence" \in done
           /\ Len(trimsequence.columns) - 1 < CHAIN_THRESHOLD) => "trimseqcol" \notin done

-----------------------------------------------------------------------------
(* C18 *)

\* the pairs i < j to which compute_dsa_stats gave a finite score
FiniteStatsPairs ==
    {p \in (1..stats.num_residues) \X (1..stats.num_residues) :
        p[1] < p[2] /\ IsFinite(stats.score_heatmap[p[1]][p[2]])}

\* C18: when no pair has a finite score (all scores NaN or infinite, or no
\* pair at all) no UMF is reported: compute_umf and compute_pair_statistics
\* do not return, and compute_dsa_stats does not return either
C18_NoValidScoresAlwaysFails ==
    /\ ("getscore" \in done /\ FiniteRows(score) = {}) =>
          "compute_umf" \notin done /\ "compute_pair_statistics" \notin done
    /\ "compute_dsa_stats" \in done => FiniteStatsPairs # {}

\* what holds: on a score table without a finite score compute_umf raises
\* and the pipeline stops there, and it raises on no other table; whereas
\* compute_dsa_stats reports NaN for the UMF and the pair statistics
C18_TablePathFails ==
    /\ ("getscore" \in done /\ FiniteRows(score) = {}) =>
          /\ "compute_umf" \notin done
          /\ "compute_pair_statistics" \notin done
          /\ "result" \notin done
    /\ "compute_umf" \in raised => FiniteRows(score) = {}
    /\ "compute_pair_statistics" \notin raised
    /\ ("compute_dsa_stats" \in done /\ FiniteStatsPairs = {}) =>
          /\ stats.umf = NaN
          /\ stats.pair_score_mean = NaN
          /\ stats.pair_score_std = NaN

-----------------------------------------------------------------------------
(* C19 *)

\* sum of the squares of the finite scores of a score table
FiniteScoreSumSq(sc) ==
    SumSeq([r \in 1..Len(sc) |->
               IF r \in FiniteRows(sc) THEN sc[r].score[2][1] * sc[r].score[2][1] ELSE 0])

\* x is the sample standard deviation (denominator n - 1) of the finite
\* scores of the table
IsSampleStdOf(x, sc) ==
    LET n == Cardinality(FiniteRows(sc))
        S == FiniteScoreSum(sc)
        Q == FiniteScoreSumSq(sc)
    IN  SquareEqualsRatio(x, n * Q - S * S, n * (n - 1))

\* C19: pair_score_std is the standard deviation of the finite pair scores
\* with denominator n - 1; with exactly one finite pair score the UMF is
\* defined and pair_score_std is reported as zero, by compute_pair_statistics
\* and by compute_dsa_stats
C19_PairScoreStd ==
    /\ "compute_pair_statistics" \in done =>
          LET n == Cardinality(FiniteRows(score))
          IN  /\ n >= 2 => IsSampleStdOf(pair_stats[2], score)
              /\ n = 1 => IsFinite(umf) /\ pair_stats[2] = Fin(RatZero)
    /\ ("compute_dsa_stats" \in done /\ Cardinality(FiniteStatsPairs) = 1) =>
          IsFinite(stats.umf) /\ stats.pair_score_std = Fin(RatZero)

\* what holds: the denominator is n - 1, and with one finite pair score the
\* UMF is that score and pair_score_std is NaN
C19_SampleStdOrNaN ==
    /\ "compute_pair_statistics" \in done =>
          LET n == Cardinality(FiniteRows(score))
          IN  /\ n >= 2 => IsSampleStdOf(pair_stats[2], score)
              /\ n = 1 => /\ EqualsRatio(umf, FiniteScoreSum(score), 1)
                          /\ pair_stats[2] = NaN
    /\ ("compute_dsa_stats" \in done /\ Cardinality(FiniteStatsPairs) = 1) =>
          IsFinite(stats.umf) /\ stats.pair_score_std = NaN

-----------------------------------------------------------------------------
(* C20 *)

\* the record of id is one the service knows and does not call Inactive
IsActive(id) ==
    /\ id \in UniprotIds
    /\ entries[id].status = 200
    /\ entries[id].entryType # "Inactive"

\* the record of id is Inactive and names a merged/demerged-to target
HasTarget(id) ==
    /\ id \in UniprotIds
    /\ entries[id].entryType = "Inactive"
    /\ Len(entries[id].mergeDemergeTo) > 0

ResolverFinished == "_resolve_active_uniprot_id" \in done \cup raised

\* C20: redirect resolution ends, and what a resolver returns is an accession
\* whose record is active; a chain that loops or ends at an inactive or
\* unknown record without target makes the resolver fail instead.  This
\* holds for _resolve_active_uniprot_id and for UniprotData._check_and_resolve.
C20_RedirectResolution ==
    /\ "_resolve_active_uniprot_id" \in done => IsActive(active_id)
    /\ "_resolve_active_uniprot_id" \in raised
           => resolve_error \in {RedirectLoop, TargetUnknown, HTTPError}
    /\ "_check_and_resolve" \in done => IsActive(resolved_id)

\* _resolve_active_uniprot_id alone: it returns an active accession it has
\* visited, and it raises only at a revisited accession, at an Inactive record
\* without target, or when the request fails
C20_FunctionResolver ==
    /\ visited \subseteq UniprotIds
    /\ "_resolve_active_uniprot_id" \in done
           => IsActive(active_id) /\ active_id \in visited
    /\ "_resolve_active_uniprot_id" \in raised =>
           \/ resolve_error = RedirectLoop /\ current_id \in visited /\ HasTarget(current_id)
           \/ resolve_error = TargetUnknown /\ ~IsActive(current_id) /\ ~HasTarget(current_id)
           \/ resolve_error = HTTPError

\* every call of _resolve_active_uniprot_id either ends the resolution or adds
\* a new accession to _visited, so there are at most MaxIds + 1 calls
C20_EveryCallEndsOrVisits ==
    [][ResolveActiveUniprotId =>
           \/ ResolverFinished'
           \/ visited \subseteq visited' /\ visited' # visited]_vars

\* UniprotData._check_and_resolve takes one step only: it returns the first
\* target of a MERGED or DEMERGED record, and its argument otherwise unless
\* the accession is unknown and the search answers
C20_CheckAndResolveOneStep ==
    "_check_and_resolve" \in done =>
        /\ original_id = current_id
        /\ is_redirected = (resolved_id # original_id)
        /\ \/ resolved_id = original_id
           \/ HasTarget(original_id) /\ resolved_id = entries[original_id].mergeDemergeTo[1]
           \/ entries[original_id].status = 404

\* a chain of two redirects: _resolve_active_uniprot_id has followed both
C20_WitnessChainFollowed ==
    /\ "_resolve_active_uniprot_id" \in done
    /\ Cardinality(visited) = 3

\* the same chain given to UniprotData: resolved_id is the Inactive middle
C20_WitnessOneStep ==
    /\ "UniprotData" \in done
    /\ HasTarget(original_id)
    /\ HasTarget(resolved_id)
    /\ resolved_id # original_id
    /\ IsActive(entries[resolved_id].mergeDemergeTo[1])

-----------------------------------------------------------------------------
(* C22 *)

\* used_pdb_ids of the result record (dsa_pipeline.py line 439)
used_pdb_ids == nor_pdblist \o sub_pdblist \o chi_pdblist \o din_pdblist

\* the structure at position k failed: its file did not parse, it was
\* labelled mismatch, or its chain sequence could not be extracted
StructureFailed(k) ==
    \/ ~pdblist[k].cif_ok
    \/ pdblist[k].mut_judge = "UniProt ID mismatch"
    \/ ~pdblist[k].seq_ok

LoopFinished == pos > Len(pdblist)

\* C22: a structure that fails is dropped: it has no chain column, it is on
\* excluded_pdbs, and the loop goes on; after the loop every selected
\* structure is on exactly one of used_pdb_ids and excluded_pdbs
C22_UsedAndExcludedPartition ==
    LoopFinished =>
        \A k \in 1..Len(pdblist) :
            /\ StructureFailed(k) =>
                   /\ Has(excluded_pdbs, PdbId(k))
                   /\ ~Has(seqdata.columns, PdbId(k) \o " A")
            /\ Has(used_pdb_ids, PdbId(k)) # Has(excluded_pdbs, PdbId(k))

\* what holds: a failed structure is on excluded_pdbs and has no column, every
\* structure is on at least one of the two lists and on each at most once,
\* and the loop has gone through all of pdblist without raising
C22_FailedStructuresAreExcluded ==
    LoopFinished =>
        /\ \A k \in 1..Len(pdblist) :
            /\ StructureFailed(k) <=> Has(excluded_pdbs, PdbId(k))
            /\ StructureFailed(k) <=> ~Has(seqdata.columns, PdbId(k) \o " A")
            /\ Has(used_pdb_ids, PdbId(k)) \/ Has(excluded_pdbs, PdbId(k))
        /\ Len(used_pdb_ids) + Len(excluded_pdbs) >= Len(pdblist)
        /\ ~HasDuplicates(used_pdb_ids) /\ ~HasDuplicates(excluded_pdbs)

\* a labelled structure whose chain sequence could not be extracted is on
\* both lists
C22_OnBothLists ==
    /\ LoopFinished
    /\ \E k \in 1..Len(pdblist) :
        /\ pdblist[k].cif_ok /\ ~pdblist[k].seq_ok
        /\ Has(used_pdb_ids, PdbId(k)) /\ Has(excluded_pdbs, PdbId(k))

-----------------------------------------------------------------------------
(* C24 *)

\* residue number of a chain entry "<name>, <number>"
TokenNumber(tok) == CHOOSE n \in 1..(MaxCoordRows + 2) : tok = TokenOf(n)

\* the coordinates the file gives for residue number n, missing if none
LookUp(file, n) ==
    IF \E i \in 1..Len(file.rows) : file.rows[i].seq_id = n
    THEN LET i == CHOOSE i \in 1..Len(file.rows) : file.rows[i].seq_id = n
         IN  <<file.rows[i].x, file.rows[i].y, file.rows[i].z>>
    ELSE <<NaN, NaN, NaN>>

\* the chain column of trimsequence that block b (1-based) of atomcoord is for
ColumnOfBlock(b) ==
    CHOOSE c \in 2..Len(trimsequence.columns) :
        trimsequence.columns[c] = ILocCol(atomcoord, 1 + (b - 1) * 4)[1]

\* C24: in the table of getcoord every chain block has N rows, and the
\* (x, y, z) of a row is the coordinate of the residue number in the entry
\* of that chain in that row, missing where the entry is missing
C24_CoordinatesByResidueNumber ==
    "getcoord" \in done =>
        \A b \in 1..NumStructures(atomcoord) :
            LET c == ColumnOfBlock(b)
                file == FindCoordFile(ParsePdbChainColumnName(trimsequence.columns[c]),
                                      atom_coord_dir)
                atoms == BlockAtoms(atomcoord, b - 1)
            IN  /\ Len(atoms) = Len(trimsequence.data[1])
                /\ \A r \in 1..Len(atoms) :
                      atoms[r] = IF trimsequence.data[c][r] = NaS THEN <<NaN, NaN, NaN>>
                                 ELSE LookUp(file, TokenNumber(trimsequence.data[c][r]))

\* what holds: every block has N rows, and row r of a block holds row r of
\* the file, whatever the entry of the chain in that row, and missing
\* values past the end of the file
C24_CoordinatesByFileRow ==
    "getcoord" \in done =>
        /\ NumStructures(atomcoord) >= 1
        /\ \A b \in 1..NumStructures(atomcoord) :
            LET c == ColumnOfBlock(b)
                file == FindCoordFile(ParsePdbChainColumnName(trimsequence.columns[c]),
                                      atom_coord_dir)
                atoms == BlockAtoms(atomcoord, b - 1)
            IN  /\ file.exists /\ file.readable
                /\ Len(atoms) = Len(trimsequence.data[1])
                /\ \A r \in 1..Len(atoms) :
                      atoms[r] = IF r <= Len(file.rows)
                                 THEN <<file.rows[r].x, file.rows[r].y, file.rows[r].z>>
                                 ELSE <<NaN, NaN, NaN>>

\* a chain without entry in a row has coordinates in that row
C24_MissingEntryHasCoordinates ==
    /\ "getcoord" \in done
    /\ \E b \in 1..NumStructures(atomcoord) : \E r \in 1..Len(atomcoord[1]) :
          /\ trimsequence.data[ColumnOfBlock(b)][r] = NaS
          /\ IsFinite(BlockAtoms(atomcoord, b - 1)[r][1])

-----------------------------------------------------------------------------
(* C30 *)

\* the block (1-based) of atomcoord whose label is the distance column c
BlockOfColumn(c) ==
    CHOOSE b \in 1..NumStructures(atomcoord) :
        ILocCol(atomcoord, 1 + (b - 1) * 4)[1] = distance.cols[c]

\* the coordinate file of the chain a label names
FileOfLabel(label) == FindCoordFile(ParsePdbChainColumnName(label), atom_coord_dir)

\* C30: getdistance2 on the table of getcoord has one row per pair i < j in
\* the order of the pair labels, one column per chain block; the cell of
\* row r and chain k is calculat of rows i and j of block k for the pair
\* (i, j) row r is labelled with, missing exactly when a coordinate of an
\* endpoint is missing; and the label of block k names the chain whose file
\* gave the coordinates of block k, also when getcoord skipped chains
C30_DistanceOfLabelledPair ==
    ("getcoord" \in done /\ "getdistance2" \in done) =>
        LET N == Len(atomcoord[1])
            iu == TriuIndices(N)
        IN  /\ Len(distance.rows) = (N * (N - 1)) \div 2
            /\ Len(distance.cols) = NumStructures(atomcoord)
            /\ \A r \in 1..Len(distance.rows) :
                  distance.rows[r].label = <<iu[r][1] + 1, iu[r][2] + 1>>
            /\ \A c \in 1..Len(distance.cols) :
                  LET b == BlockOfColumn(c)
                      atoms == BlockAtoms(atomcoord, b - 1)
                      file == FileOfLabel(distance.cols[c])
                  IN  /\ b = c
                      /\ file.exists /\ file.readable
                      /\ atoms = FitToResidues(LoadCoordTable(file), N)
                      /\ \A r \in 1..Len(distance.rows) :
                            LET i == distance.rows[r].label[1]
                                j == distance.rows[r].label[2]
                                cell == distance.rows[r].cells[c]
                            IN  /\ i < j
                                /\ cell = calculat(atoms[i], atoms[j])
                                /\ IsNaN(cell) <=>
                                      \E x \in 1..3 : IsNaN(atoms[i][x]) \/ IsNaN(atoms[j][x])

\* getcoord skipped the first chain, kept a later one, and getdistance2
\* gave three pair rows of which one is a number and one is missing
C30_WitnessSkippedChain ==
    /\ "getcoord" \in done /\ "getdistance2" \in done
    /\ Len(trimsequence.columns) = 3
    /\ distance.cols = <<trimsequence.columns[3]>>
    /\ Len(distance.rows) = 3
    /\ \E r \in 1..3 : IsNaN(distance.rows[r].cells[1])
    /\ \E r \in 1..3 : ~IsNaN(distance.rows[r].cells[1])

-----------------------------------------------------------------------------
(* C26 *)

\* position of a file in the argument list
PathPosition(p) == CHOOSE i \in 1..Len(pdb_paths) : pdb_paths[i] = p

\* s holds files of the argument, each once, in the order of the argument
InInputOrder(s) ==
    /\ \A a \in 1..Len(s) : \E i \in 1..Len(pdb_paths) : pdb_paths[i] = s[a]
    /\ \A a, b \in 1..Len(s) : a < b => PathPosition(s[a]) < PathPosition(s[b])

\* remaining and removed divide the argument between them
PartitionOfInput ==
    /\ InInputOrder(remaining) /\ InInputOrder(removed)
    /\ Len(remaining) + Len(removed) = Len(pdb_paths)
    /\ \A a \in 1..Len(remaining), b \in 1..Len(removed) : remaining[a] # removed[b]

FilterReturned == "_extract_coords_with_filtering" \in done
FilterFailed == "_extract_coords_with_filtering" \in raised

\* C26: when _extract_coords_with_filtering returns, the used and the
\* removed files partition the argument, each in input order, all used
\* files have the same residue count, and at least two files are used: it
\* never returns a set of fewer than two structures
C26_ReturnsPartitionOfAtLeastTwo ==
    FilterReturned =>
        /\ PartitionOfInput
        /\ \A a, b \in 1..Len(remaining) : remaining[a].residues = remaining[b].residues
        /\ Len(remaining) >= 2

\* what holds of the returned lists: the partition and the common residue
\* count, with at least one file used
C26_ReturnsPartition ==
    FilterReturned =>
        /\ PartitionOfInput
        /\ \A a, b \in 1..Len(remaining) : remaining[a].residues = remaining[b].residues
        /\ Len(remaining) >= 1
        /\ Len(remaining) < 2 => (Len(pdb_paths) = 1 /\ removed = <<>>)

\* a pass that meets a mismatch removes the first file whose residue count
\* is not that of the first file, and nothing else; after a removal fewer
\* than two files left is a failure
C26_MismatchRemovesOffending ==
    [][remaining' # remaining =>
          \E i \in 2..Len(remaining) :
              /\ remaining[i].residues # remaining[1].residues
              /\ \A j \in 2..(i - 1) : remaining[j].residues = remaining[1].residues
              /\ remaining' = RemoveAt(remaining, i)
              /\ removed' = Append(removed, remaining[i])
              /\ (Len(remaining') < 2) <=> FilterFailed']_vars

\* every pass either ends the call or shortens the list of files
C26_EveryPassEndsOrRemoves ==
    [][ExtractCoordsWithFiltering =>
          \/ FilterReturned' \/ FilterFailed'
          \/ Len(remaining') = Len(remaining) - 1]_vars

\* the call ends
C26_Terminates == <>(FilterReturned \/ FilterFailed)

\* a single downloaded file is returned as the set of structures
C26_OneStructureReturned ==
    /\ FilterReturned
    /\ Len(remaining) = 1

-----------------------------------------------------------------------------
(* C27 *)

\* the entry at position p of the slice is named by an insertion annotation
NamedByInsertion(p) ==
    /\ chain_slice[p] # NoMonomer
    /\ Contains(seq_num_insertion, SplitSeqNum(chain_slice[p]))

\* the positions of the slice that are kept, in order
KeptPositions(keep(_)) ==
    BoolIndex([p \in 1..Len(chain_slice) |-> p], [p \in 1..Len(chain_slice) |-> keep(p)])

NotNamed(p) == ~NamedByInsertion(p)

\* C27: after the insertion correction the chain holds the entries of the
\* slice that no insertion annotation names, in order: every entry whose
\* residue number is named is removed, consecutive ones included, no other
\* entry is removed, and the length shrinks by the number of entries named
C27_InsertedEntriesRemoved ==
    "insertion" \in done =>
        LET kept == KeptPositions(NotNamed)
        IN  /\ chain = [k \in 1..Len(kept) |-> chain_slice[kept[k]]]
            /\ Len(chain) = Len(chain_slice)
                              - Cardinality({p \in 1..Len(chain_slice) : NamedByInsertion(p)})

\* what holds: only entries named by an annotation are removed, the order of
\* the others is kept, and an annotation is used up for every entry removed
C27_OnlyNamedEntriesRemoved ==
    "insertion" \in done =>
        /\ \E keep \in [1..Len(chain_slice) -> BOOLEAN] :
              /\ \A p \in 1..Len(chain_slice) : ~keep[p] => NamedByInsertion(p)
              /\ LET kept == BoolIndex([p \in 1..Len(chain_slice) |-> p], keep)
                 IN  chain = [k \in 1..Len(kept) |-> chain_slice[kept[k]]]
        /\ Len(chain_slice) - Len(chain) = Len(seq_num_insertion) - Len(insertion)

\* what holds: named entries with distinct numbers that do not follow each
\* other in the slice are all removed
C27_IsolatedInsertionsRemoved ==
    (/\ "insertion" \in done
     /\ \A p \in 1..(Len(chain_slice) - 1) : ~(NamedByInsertion(p) /\ NamedByInsertion(p + 1))
     /\ \A a, b \in 1..Len(seq_num_insertion) : a # b => seq_num_insertion[a] # seq_num_insertion[b]
     /\ \A p, q \in 1..Len(chain_slice) :
           (p # q /\ chain_slice[p] # NoMonomer /\ chain_slice[q] # NoMonomer)
               => SplitSeqNum(chain_slice[p]) # SplitSeqNum(chain_slice[q]))
    => chain = LET kept == KeptPositions(NotNamed)
               IN  [k \in 1..Len(kept) |-> chain_slice[kept[k]]]

\* residues 2 and 3 of MET 1, ALA 2, GLY 3, MET 4 are inserted, and the
\* corrected chain still holds GLY 3
C27_ConsecutiveInsertionKept ==
    /\ "insertion" \in done
    /\ chain_slice = <<"MET, 1", "ALA, 2", "GLY, 3", "MET, 4">>
    /\ seq_num_insertion = <<2, 3>>
    /\ chain = <<"MET, 1", "GLY, 3", "MET, 4">>

-----------------------------------------------------------------------------
(* C28 *)

\* the structure (position in pdblist) a chain column of seqdata is named for
StructureOfColumn(name) == CHOOSE k \in 1..Len(pdblist) : name = PdbId(k) \o " A"

\* a column holds the chain of structure s at the slots beg..end and missing
\* values at the slots before beg and after end, on ReferenceLength rows
EmbeddedAt(column, s) ==
    /\ Len(column) = ReferenceLength
    /\ \A i \in 1..Len(column) :
          IF i >= s.beg /\ i <= s.end
          THEN i - s.beg + 1 <= Len(s.raw_seq) /\ column[i] = s.raw_seq[i - s.beg + 1]
          ELSE column[i] = NaS

\* C28: every chain column joined to the alignment table has exactly L
\* entries, the chain at the slots [begin-1, end) and missing values before
\* and after; the table has L rows before trimming and at most L after,
\* whatever the length of the extracted chain
C28_ChainEmbeddedInReference ==
    /\ \A c \in 2..Len(seqdata.columns) :
          EmbeddedAt(seqdata.data[c], pdblist[StructureOfColumn(seqdata.columns[c])])
    /\ NumRows(seqdata) = ReferenceLength
    /\ "sort_sequence" \in done => NumRows(trimsequence) <= ReferenceLength

\* the chain of every structure has as many entries as its range
ChainsFitRanges ==
    \A k \in 1..Len(pdblist) : Len(pdblist[k].raw_seq) = pdblist[k].end - pdblist[k].beg + 1

\* what holds: when every chain has end - beg + 1 entries, the columns are
\* embedded and the table has L rows before and at most L rows after trimming
C28_FittingChainEmbedded ==
    ChainsFitRanges => C28_ChainEmbeddedInReference

\* a chain longer than its range gives a table of more than L rows, before
\* and after trimming
C28_TableLongerThanReference ==
    /\ "sort_sequence" \in done
    /\ NumRows(seqdata) > ReferenceLength
    /\ NumRows(trimsequence) > ReferenceLength

-----------------------------------------------------------------------------
(* C23 *)

\* the 1-based pairs i < j of N residues in lexicographic order
LexPairs(N) ==
    LET pairs == Combinations2(N)
    IN  Array([r \in 1..Len(pairs) |-> PairLabel(pairs[r])])

\* the ratios are those of the pairs, and the mask is A or B off the diagonal
RatiosAndMaskOf(N, G, pairs, ratio, global_std, masks, final) ==
    /\ Len(ratio) = (N * (N - 1)) \div 2
    /\ \A r \in 1..Len(ratio) :
          /\ ratio[r][1] * G
                = Cardinality({g \in 1..G : masks[g][pairs[r][1]][pairs[r][2]]}) * ratio[r][2]
          /\ RatLeq(RatZero, ratio[r]) /\ RatLeq(ratio[r], RatInt(1))
    /\ \A i, j \in 1..N :
          final[i][j]
              <=> /\ i # j
                  /\ \/ Greater(global_std[i][j], score_threshold)
                     \/ \E r \in 1..Len(ratio) :
                           /\ pairs[r] \in {<<i, j>>, <<j, i>>}
                           /\ RatLeq(flex_ratio_threshold, ratio[r])

\* C23: flex_presence_ratio has N(N-1)/2 entries, one per pair i < j in
\* lexicographic order, each the number of structure groups whose flex mask
\* marks the pair divided by the number of groups, between 0 and 1; the
\* final flex mask is (global std > score_threshold) or (presence ratio >=
\* flex_ratio_threshold) off the diagonal and FALSE on the diagonal
C23_PresenceRatioAndFinalMask ==
    "compute_uniprot_level_flex" \in done =>
        RatiosAndMaskOf(uniprot_level.num_residues, Len(structure_coords_list),
                        LexPairs(uniprot_level.num_residues),
                        uniprot_level.flex_presence_ratio,
                        StdMatrix(ConcatenateGroups(structure_coords_list)),
                        uniprot_level.per_structure_flex_mask,
                        uniprot_level.global_flex_mask)

\* three residues, two groups: a pair is marked by one of the two groups
\* (ratio 1/2) and is in the final mask by its ratio only, and another pair
\* is not in the final mask
C23_WitnessHalfPresent ==
    /\ "compute_uniprot_level_flex" \in done
    /\ uniprot_level.num_residues = 3
    /\ Len(structure_coords_list) = 2
    /\ \E r \in 1..3 :
          /\ uniprot_level.flex_presence_ratio[r] = <<1, 2>>
          /\ uniprot_level.global_flex_mask[LexPairs(3)[r][1]][LexPairs(3)[r][2]]
          /\ ~Greater(StdMatrix(ConcatenateGroups(structure_coords_list))
                         [LexPairs(3)[r][1]][LexPairs(3)[r][2]], score_threshold)
    /\ \E i, j \in 1..3 : i # j /\ ~uniprot_level.global_flex_mask[i][j]

(* C29 *)

\* the structures named by the chain columns of the table that have a
\* resolution in pdbdata
ResolvedStructures ==
    {k \in LogStructures :
        /\ \E c \in 2..Len(trimsequence.columns) : FirstWord(trimsequence.columns[c]) = PdbId(k)
        /\ DigitsAndDots(pdbdata[PdbId(k)]) # ""}

\* the number of chain columns of structure k
ChainColumnsOf(k) ==
    Cardinality({c \in 2..Len(trimsequence.columns) :
                    FirstWord(trimsequence.columns[c]) = PdbId(k)})

\* the resolution of structure k in hundredths
Hundredths(k) ==
    LET x == FloatOfDigits(DigitsAndDots(pdbdata[PdbId(k)])) IN (x[1] * 100) \div x[2]

\* the sum of value[k] * weight[k] over the structures k of S
RECURSIVE WeightedTotal(_, _, _)
WeightedTotal(S, value, weight) ==
    IF S = {} THEN 0
    ELSE LET k == CHOOSE x \in S : TRUE
         IN  value[k] * weight[k] + WeightedTotal(S \ {k}, value, weight)

\* the mean of the resolutions of the structures of S, structure k counted
\* weight[k] times, rounded half up to hundredths
MeanResolution(S, weight) ==
    IF S = {} THEN RatZero
    ELSE LET total == WeightedTotal(S, [k \in S |-> Hundredths(k)], weight)
             n == WeightedTotal(S, [k \in S |-> 1], weight)
         IN  Rat((2 * total + n) \div (2 * n), 100)

\* C29: the mean resolution reported for a run is the mean over the distinct
\* accepted structures that have a resolution: a structure contributing
\* several chain columns is counted once, not once per chain
C29_MeanOverDistinctStructures ==
    "generate_log_content" \in done =>
        log_content.Resolution = MeanResolution(ResolvedStructures, [k \in LogStructures |-> 1])

\* what generate_log_content reports: the mean over the chain columns whose
\* structure has a resolution, a structure counted once per chain column
C29_MeanOverChainColumns ==
    "generate_log_content" \in done =>
        log_content.Resolution = MeanResolution(ResolvedStructures, [k \in LogStructures |-> ChainColumnsOf(k)])

\* Entries counts the distinct structures and Chains the chain columns
C29_EntriesAreDistinctStructures ==
    "generate_log_content" \in done =>
        /\ log_content.Entries =
               Cardinality({FirstWord(trimsequence.columns[c]) :
                               c \in 2..Len(trimsequence.columns)})
        /\ log_content.Chains = Len(trimsequence.columns) - 1

\* a log of a table in which one structure has two chain columns and another
\* structure, of a different resolution, has one
C29_TwoChainsOfOneStructure ==
    /\ "generate_log_content" \in done
    /\ \E k, m \in ResolvedStructures :
          /\ ChainColumnsOf(k) = 2
          /\ ChainColumnsOf(m) = 1
          /\ Hundredths(k) # Hundredths(m)

(* C21 *)

\* the service answers that OLD is inactive and was merged or demerged into
\* the active NEW
OldRedirectsToNew ==
    /\ current_id = "OLD"
    /\ entries["OLD"].entryType = "Inactive"
    /\ entries["OLD"].mergeDemergeTo = <<"NEW">>
    /\ entries["NEW"] = ActiveEntry("NEW")

\* C21: when the input identifier OLD is inactive and redirects to the active
\* NEW, the result record of the run holds both the input identifier OLD and
\* the resolved identifier NEW, and the run works on the entry of NEW
C21_ResultRecordsBothIds ==
    ("result" \in done /\ OldRedirectsToNew /\ is_redirected) =>
        /\ result.uniprot_id = "OLD"
        /\ "resolved_id" \in DOMAIN result
        /\ result.resolved_id = "NEW"
        /\ uniprotids = <<"NEW">>

\* what the run does: the UniprotData object remembers both identifiers and
\* every step reads the entry of the resolved one, but the result record
\* holds the input identifier only
C21_ResultRecordsInputIdOnly ==
    ("result" \in done /\ OldRedirectsToNew /\ is_redirected) =>
        /\ original_id = "OLD"
        /\ resolved_id = "NEW"
        /\ uniprotids = <<"NEW">>
        /\ result.uniprot_id = "OLD"
        /\ \A f \in {"resolved_id", "reference_id", "uniprot_id_resolved"} :
              f \notin DOMAIN result

\* a finished run whose identifier was redirected from OLD to NEW
C21_RedirectedRunFinished ==
    "result" \in done /\ OldRedirectsToNew /\ is_redirected

(* C25 *)

\* the stage of a run of run_dsa_pipeline: Failed once a step has raised,
\* else the last of the milestones the run has passed: the UniProt entry
\* is requested (Collecting), two structures are accepted (Classified), two
\* chains are left after trimming (Aligned), the coordinate table is built
\* (Assembled), the score table is built (Scored), the result is built (Done)
Stage ==
    IF raised # {} THEN "Failed"
    ELSE IF "result" \in done THEN "Done"
    ELSE IF "getscore" \in done THEN "Scored"
    ELSE IF "getcoord" \in done THEN "Assembled"
    ELSE IF "num_chains" \in done THEN "Aligned"
    ELSE IF "total_used" \in done THEN "Classified"
    ELSE IF "_check_and_resolve" \in done THEN "Collecting"
    ELSE "Idle"

StageNames == <<"Idle", "Collecting", "Classified", "Aligned", "Assembled", "Scored", "Done",
                "Failed">>

StageRank(stage) == CHOOSE r \in 1..Len(StageNames) : StageNames[r] = stage

\* a step leaves alone what the stages up to the present one have made
EarlierStagesUntouched ==
    /\ StageRank(Stage) >= StageRank("Classified") =>
          UNCHANGED <<resolverVars, uniprotids, pdblist, pos, nor_pdblist, sub_pdblist,
                      chi_pdblist, din_pdblist, excluded_pdbs, seqdata>>
    /\ StageRank(Stage) >= StageRank("Aligned") => UNCHANGED trimsequence
    /\ StageRank(Stage) >= StageRank("Assembled") => UNCHANGED atomcoord
    /\ StageRank(Stage) >= StageRank("Scored") => UNCHANGED <<distance, score>>

C25_FailedInAssembly ==
    /\ Stage = "Failed"
    /\ "num_chains" \in done
    /\ "getcoord" \in raised
    /\ result = NoResult

====
